---- MODULE Spec2Model ----
(***************************************************************************)
(* State-machine model of the movie acquisition engine:                    *)
(*   step1_scraping_unified.py        baseline runner, inner join          *)
(*   step3b_multithreading_scrapers.py thread-pool runner                  *)
(*   step3c_proxy_tor_runner.py       proxy (Tor) runner                   *)
(* One script runs per behaviour; `script` names it.  Each script has its  *)
(* own specification (SpecMT, SpecProxy, ...) over the shared variables.   *)
(***************************************************************************)
EXTENDS Integers, Sequences, FiniteSets, TLC

VARIABLES
    script,      \* which script / component this behaviour runs
    \* ---- Metrics object of the current strategy run
    count,       \* Metrics.count / request_count / n
    bytes,       \* Metrics.bytes / total_bytes / b
    latencies,   \* Metrics.latencies / ts
    nrec,        \* history: number of Metrics.record calls started
    sumrec,      \* history: sum of the clamped sizes passed to record
    \* ---- thread-pool run (scrape_api_mt / scrape_bs4_mt)
    mtStrategy,  \* "API_MT" or "BS4_MT"
    mtIds,       \* ids returned by the listing, already cut to max_movies*2
    mtMax,       \* max_movies
    mtpc,        \* position of the main thread
    mtNext,      \* index of the next item the main thread submits
    mtQueue,     \* executor work queue: indices of submitted, not yet taken items
    wpc,         \* worker -> position inside the fetch function
    witem,       \* worker -> index of the item it is running (0: none)
    wok,         \* worker -> response of its request was OK
    wtmp,        \* worker -> value loaded by the read half of a `+=`
    execCount,   \* history: index -> number of calls of the fetch function
    future,      \* index -> "pending" | "row" | "none"   (Future result)
    collected,   \* indices whose future the collecting loop has consumed, in order
    rows,        \* result list of the run
    \* ---- proxy runner (step3c __main__)
    pxArg,       \* args.proxy: "tor" | "none"
    pxMax,       \* args.max
    pxProxies,   \* proxies is not None (the Tor route is used)
    pxpc,        \* position of the script; "raised_<where>": an exception ended it
    avail,       \* catalog: number of movies the source lists
    overlap,     \* catalog: a page repeats the last movie of the page before
    pxPage,      \* page counter of the running listing loop
    pxIds,       \* ids gathered by the running listing loop
    pxIdx,       \* index into ids of the running detail loop
    pxRows,      \* strategy -> rows it returned (or gathers)
    pxSum,       \* strategy -> requests of its metrics summary (-1: none yet)
    yields,      \* history: candidates held by each listing response of the loop
    pxSaved,     \* strategies whose rows were written to CSV
    \* ---- headless-browser strategy (scrape_selenium / scrape_selenium_detail)
    seVariant,   \* "baseline" (step1) | "mt" (step3b) | "proxy" (step3c)
    sepc,        \* position of the strategy
    seMax,       \* max_movies
    seTor,       \* use_tor: the browser is started with --proxy-server
    sePage,      \* page
    seCand,      \* ids awaiting their detail page (ids / detail_urls / cards)
    seIdx,       \* index into seCand of the detail loop
    seRows,      \* rows / movies
    seVisited,   \* visited (step3b)
    navAttempt,  \* attempt of the running safe_get
    navState,    \* "Idle" | "Loading" | "Loaded" | "Partial" | "Failed" | "Raised"
    navLast,     \* history: how the last driver.get ended
    navCalls,    \* history: driver.get calls of the run
    seFallback,  \* history: route of each fallback fetch (TRUE: via Tor)
    fbLast,      \* history: how the last fallback fetch ended
    seNav,       \* history: ids of the detail pages the browser was sent to
    seQuit,      \* history: driver.quit calls of the run
    \* ---- entry points that run the three strategies one after the other
    mnScript,    \* "unified" (step1 main) | "mt" (step3b __main__)
    mnFlags,     \* strategies requested (run_api, run_bs4, run_selenium)
    mnMax,       \* max_movies / args.max
    mnpc,        \* "api" | "bs4" | "sel" | "save" | "done" | "raised"
    mnRes,       \* strategy -> rows it handed to main
    mnFailed,    \* history: strategies that raised
    mnSaved,     \* strategies whose CSV was written
    \* ---- one detail fetch through the retrying session
    trCaller,    \* "details" (step1 get_movie_details_requests) | "api_mt" (step3b fetch_movie_api)
    trpc,        \* "call" | "wire" | "done"
    trLeft,      \* fetches still to make
    trBudget,    \* Retry.total left inside the running session.get
    trWire,      \* history: attempts that reached the wire
    trTry,       \* history: attempts made by the running (or last) session.get
    trLast,      \* history: outcome of the last attempt
    trRaised,    \* history: fetches whose session.get raised
    \* ---- the join of the three result lists
    jnA, jnB, jnC,  \* tmdb_id of each record of the API, BS4, Selenium lists
    jnpc,        \* "ready" | "done"
    jnOut,       \* rows of the tidy frame written to CSV_COMMON
    jnCount,     \* value returned by build_common_by_id
    \* ---- the API strategy, page by page
    apVariant,   \* "unified" (step1 scrape_api) | "mt" (step3b scrape_api_mt)
    apMax,       \* max_movies
    apK,         \* items on a full listing page
    apAvail,     \* items the source has
    appc,        \* "list" | "detail" | "done" | "raised"
    apPage,      \* page number the next listing request asks for
    apPages,     \* history: page numbers requested, in order
    apAllOk,     \* history: every response so far was OK
    apIds,       \* step3b: ids collected from the listing
    apIdx,       \* step3b: next entry of ids[:max_movies] to fetch
    apRows,      \* rows of the strategy
    \* ---- the static-HTML strategy, detail page by detail page
    bsVariant,   \* "unified" (step1 scrape_bs4) | "mt" (step3b scrape_bs4_mt)
    bsMax,       \* max_movies
    bsIds,       \* ids of the listing's cards, in order
    bsIdx,       \* next card
    bspc,        \* "detail" | "done"
    bsRows,      \* rows of the strategy
    bsLog,       \* history: per detail fetch, its id, outcome and matched selectors
    \* ---- the release date and rating fields of one record
    nmStrategy,  \* strategy that wrote the record: "API" | "BS4" | "Selenium"
    nmScript,    \* "unified" | "mt" | "proxy"
    nmRawDate,   \* the date value the source supplied
    nmRawRating, \* the rating value the source supplied
    nmpc,        \* "raw" | "done"
    nmDate,      \* release_date of the record
    nmRating,    \* result of normalize_rating / norm_rating
    \* ---- route of a proxy run (step3c __main__)
    rtArg,       \* args.proxy: "tor" | "none"
    rtProbe,     \* history: how the probe of check_tor ended ("notrun": not called)
    rtProxies,   \* TRUE: proxies is the Tor dict; FALSE: proxies is None
    rtpc,        \* "off" | "start" | "api" | "bs4" | "sel" | "save" | "done" | "raised"
    rtRoute,     \* history: strategy -> route of the session it made ("unset": none)
    rtFallback,  \* history: route of each fallback fetch of the browser strategy
    rtRows,      \* strategy -> number of rows it returned (-1: none yet)
    rtLabel,     \* "proxy" field of the JSON summary ("unset": not written)
    \* ---- one Metrics object used by one thread
    msLast,      \* history: the arguments of the last record call
    msOut,       \* the dict the last summary call returned
    msCalls,     \* history: number of summary calls
    \* ---- collect_balanced (step4a, plain and enriched)
    bgVariant,   \* "plain" (step4a_build_balanced_2000_api) | "enriched"
    bgChosen,    \* chosen_genres
    bgTarget,    \* target_per_genre
    bgCatalog,   \* genre -> ids the discover endpoint lists for it, in order
    bgBad,       \* ids whose record is not acceptable (no overview, no title, rating 0)
    bgpc,        \* "off" | "loop" | "done" | "raised"
    bgG,         \* index into chosen_genres of the genre being collected
    bgPage,      \* page
    bgAdded,     \* added_here / added
    bgRows,      \* rows
    bgHave,      \* have
    bgReqs       \* history: discover requests made for the genre being collected

mtVars == <<mtStrategy, mtIds, mtMax, mtpc, mtNext, mtQueue, wpc, witem, wok,
            wtmp, execCount, future, collected, rows>>
metricVars == <<count, bytes, latencies, nrec, sumrec>>

pxVars_noYields == <<pxArg, pxMax, pxProxies, pxpc, avail, overlap, pxPage, pxIds, pxIdx,
                    pxRows, pxSum, pxSaved>>
pxVars == <<pxVars_noYields, yields>>

seVars == <<seVariant, sepc, seMax, seTor, sePage, seCand, seIdx, seRows, seVisited,
            navAttempt, navState, navLast, navCalls, seFallback, fbLast, seNav,
            seQuit>>

mnVars == <<mnScript, mnFlags, mnMax, mnpc, mnRes, mnFailed, mnSaved>>

trVars == <<trCaller, trpc, trLeft, trBudget, trWire, trTry, trLast, trRaised>>

jnVars == <<jnA, jnB, jnC, jnpc, jnOut, jnCount>>

apVars == <<apVariant, apMax, apK, apAvail, appc, apPage, apPages, apAllOk, apIds, apIdx,
           apRows>>

bsVars == <<bsVariant, bsMax, bsIds, bsIdx, bspc, bsRows, bsLog>>

nmVars == <<nmStrategy, nmScript, nmRawDate, nmRawRating, nmpc, nmDate, nmRating>>

rtVars == <<rtArg, rtProbe, rtProxies, rtpc, rtRoute, rtFallback, rtRows, rtLabel>>

coreAuxVars == <<mnVars, trVars, jnVars, apVars, bsVars, nmVars>>

msVars == <<msLast, msOut, msCalls>>

bgVars == <<bgVariant, bgChosen, bgTarget, bgCatalog, bgBad, bgpc, bgG, bgPage, bgAdded,
           bgRows, bgHave, bgReqs>>

extVars == <<rtVars, msVars, bgVars>>

auxVars == <<coreAuxVars, extVars>>

vars == <<script, metricVars, mtVars, pxVars, seVars, auxVars>>

----------------------------------------------------------------------------
(* Bounds of the model *)
MaxMovies == 2      \* largest max_movies explored
MaxNavMovies == 3   \* largest max_movies of a browser run on its own
MaxListing == 2     \* most ids the listing pages of a thread-pool run hold
MaxAvail == 3       \* most movies the catalog lists
PageSize == 2       \* movies per listing page
MaxPage == 3        \* listing loops are followed up to this page

(* Program constants *)
SEL_RETRIES == 2    \* step3c: SEL_RETRIES
MtRetries == 2      \* step3b: safe_get(driver, url, retries=2, ..)
THREADS_API == 10   \* also THREADS_BS4
PagesApi == 8       \* get_popular_ids_api(pages=8, ...)
PagesBs4 == 6       \* collect_ids_from_listing(pages=6, ...)
ListingPages(strategy) == IF strategy = "API_MT" THEN PagesApi ELSE PagesBs4

Min(a, b) == IF a < b THEN a ELSE b
Max(a, b) == IF a > b THEN a ELSE b

RECURSIVE SumSeq(_)
SumSeq(s) == IF s = <<>> THEN 0 ELSE Head(s) + SumSeq(Tail(s))

RECURSIVE SeqsUpTo(_, _)
\* all sequences over S of length 0..n
SeqsUpTo(S, n) ==
    IF n = 0 THEN {<<>>}
    ELSE LET shorter == SeqsUpTo(S, n - 1)
         IN  shorter \cup {Append(s, x) : s \in {t \in shorter : Len(t) = n - 1}, x \in S}

\* ids the catalog hands out to a thread-pool run, and the number of its listing
\* requests that may raise
Ids == {1, 2}
ListFailures == {0, 1}

----------------------------------------------------------------------------
(* Metrics: the three scripts carry the same class under different names.  *)

\* max(0, int(size))
ClampSizeNone(size) == size
ClampSize(size) == Max(0, size)
\* max(0.0, float(latency))
ClampLatency(latency) == Max(0, latency)

\* Metrics.record run by a single thread, start to end.
RecordDropsLatency(latency, size) ==
    /\ count' = count + 1
    /\ bytes' = bytes + ClampSize(size)
    /\ latencies' = latencies
    /\ nrec' = nrec + 1
    /\ sumrec' = sumrec + ClampSize(size)
Record(latency, size) ==
    /\ count' = count + 1
    /\ bytes' = bytes + ClampSize(size)
    /\ latencies' = Append(latencies, ClampLatency(latency))
    /\ nrec' = nrec + 1
    /\ sumrec' = sumrec + ClampSize(size)

MetricsInit ==
    /\ count = 0
    /\ bytes = 0
    /\ latencies = <<>>
    /\ nrec = 0
    /\ sumrec = 0

\* response size and latency of the detail page of item id (fixed per page)
SizeOf(id) == id
LatencyOf(id) == id
\* response size and latency of a listing page
ListSize == 1
ListLatency == 1

----------------------------------------------------------------------------
(* The catalog the listing endpoints page through.                         *)

Strategies == {"api", "bs4", "sel"}

RECURSIVE Range(_, _)
\* <<a, a+1, ..., b>>
Range(a, b) == IF a > b THEN <<>> ELSE <<a>> \o Range(a + 1, b)

\* ids of the movies on listing page p: PageSize movies per page; with overlap
\* the listing moved between two requests and a page starts with the last
\* movie of the page before.
CatalogPage(p) ==
    LET step == IF overlap THEN PageSize - 1 ELSE PageSize
        first == (p - 1) * step + 1
    IN  Range(first, Min(first + PageSize - 1, avail))

PxIdle ==
    /\ pxArg = "none"
    /\ pxMax = 0
    /\ pxProxies = FALSE
    /\ pxpc = "off"
    /\ avail = 0
    /\ overlap = FALSE
    /\ pxPage = 1
    /\ pxIds = <<>>
    /\ pxIdx = 1
    /\ pxRows = [st \in Strategies |-> <<>>]
    /\ pxSum = [st \in Strategies |-> -1]
    /\ yields = <<>>
    /\ pxSaved = {}

MnIdle ==
    /\ mnScript = "mt"
    /\ mnFlags = {}
    /\ mnMax = 0
    /\ mnpc = "off"
    /\ mnRes = [st \in Strategies |-> <<>>]
    /\ mnFailed = {}
    /\ mnSaved = {}

TrIdle ==
    /\ trCaller = "details"
    /\ trpc = "off"
    /\ trLeft = 0
    /\ trBudget = 0
    /\ trWire = 0
    /\ trTry = 0
    /\ trLast = "none"
    /\ trRaised = 0

JnIdle ==
    /\ jnA = <<>> /\ jnB = <<>> /\ jnC = <<>>
    /\ jnpc = "off"
    /\ jnOut = <<>>
    /\ jnCount = 0

ApIdle ==
    /\ apVariant = "unified"
    /\ apMax = 0
    /\ apK = 1
    /\ apAvail = 0
    /\ appc = "off"
    /\ apPage = 1
    /\ apPages = <<>>
    /\ apAllOk = TRUE
    /\ apIds = <<>>
    /\ apIdx = 1
    /\ apRows = <<>>

BsIdle ==
    /\ bsVariant = "unified"
    /\ bsMax = 0
    /\ bsIds = <<>>
    /\ bsIdx = 1
    /\ bspc = "off"
    /\ bsRows = <<>>
    /\ bsLog = <<>>

\* the sentinel "N/A" as a field value
NA == [fmt |-> "N/A", v |-> 0]

NmIdle ==
    /\ nmStrategy = "API"
    /\ nmScript = "unified"
    /\ nmRawDate = [fmt |-> "none", v |-> 0]
    /\ nmRawRating = [fmt |-> "none", v |-> 0]
    /\ nmpc = "off"
    /\ nmDate = NA
    /\ nmRating = NA

RtIdle ==
    /\ rtArg = "none"
    /\ rtProbe = "notrun"
    /\ rtProxies = FALSE
    /\ rtpc = "off"
    /\ rtRoute = [st \in Strategies |-> "unset"]
    /\ rtFallback = <<>>
    /\ rtRows = [st \in Strategies |-> -1]
    /\ rtLabel = "unset"

CoreAuxIdle == MnIdle /\ TrIdle /\ JnIdle /\ ApIdle /\ BsIdle /\ NmIdle

\* no summary was computed yet
NoSummary == [requests |-> -1, bytes |-> -1, avg_latency_ms |-> -1, total_latency_s |-> -1]

MsIdle ==
    /\ msLast = [latency |-> 0, size |-> 0]
    /\ msOut = NoSummary
    /\ msCalls = 0

Genres == {"Drama", "Comedy"}

BgIdle ==
    /\ bgVariant = "plain"
    /\ bgChosen = <<>>
    /\ bgTarget = 0
    /\ bgCatalog = [g \in Genres |-> <<>>]
    /\ bgBad = {}
    /\ bgpc = "off"
    /\ bgG = 1
    /\ bgPage = 1
    /\ bgAdded = 0
    /\ bgRows = <<>>
    /\ bgHave = {}
    /\ bgReqs = 0

ExtIdle == RtIdle /\ MsIdle /\ BgIdle

AuxIdle == CoreAuxIdle /\ ExtIdle

SeIdle ==
    /\ seVariant = "proxy"
    /\ sepc = "off"
    /\ seMax = 0
    /\ seTor = FALSE
    /\ sePage = 1
    /\ seCand = <<>>
    /\ seIdx = 1
    /\ seRows = <<>>
    /\ seVisited = {}
    /\ navAttempt = 0
    /\ navState = "Idle"
    /\ navLast = "none"
    /\ navCalls = 0
    /\ seFallback = <<>>
    /\ fbLast = "none"
    /\ seNav = <<>>
    /\ seQuit = 0

----------------------------------------------------------------------------
(* Thread-pool run: scrape_api_mt / scrape_bs4_mt                          *)

\* max_workers=THREADS_API bounds the pool's threads
\* Two of them are followed: every race of the run is a race of two threads.
Workers == {w \in {1, 2} : w <= THREADS_API}

\* ids[:max_movies]
SubmittedUncut == mtIds
Submitted == SubSeq(mtIds, 1, Min(mtMax, Len(mtIds)))

MtIdle ==
    /\ mtStrategy = "API_MT"
    /\ mtIds = <<>>
    /\ mtMax = 0
    /\ mtpc = "off"
    /\ mtNext = 1
    /\ mtQueue = <<>>
    /\ wpc = [w \in Workers |-> "idle"]
    /\ witem = [w \in Workers |-> 0]
    /\ wok = [w \in Workers |-> FALSE]
    /\ wtmp = [w \in Workers |-> 0]
    /\ execCount = <<>>
    /\ future = <<>>
    /\ collected = <<>>
    /\ rows = <<>>

InitMT ==
    /\ AuxIdle
    /\ script = "mt"
    /\ PxIdle
    /\ SeIdle
    /\ MetricsInit
    /\ mtStrategy \in {"API_MT", "BS4_MT"}
    /\ mtMax \in 1..MaxMovies
    /\ mtIds = <<>>
    /\ mtpc = "start"
    /\ mtNext = 1
    /\ mtQueue = <<>>
    /\ wpc = [w \in Workers |-> "idle"]
    /\ witem = [w \in Workers |-> 0]
    /\ wok = [w \in Workers |-> FALSE]
    /\ wtmp = [w \in Workers |-> 0]
    /\ execCount = <<>>
    /\ future = <<>>
    /\ collected = <<>>
    /\ rows = <<>>

\* The row a detail fetch of item id returns (fetch_movie_api / fetch_bs4_detail).
MtRow(id) == [tmdb_id |-> id, method |-> mtStrategy]

\* k calls of Metrics.record made one after the other by one thread, each with
\* the listing page's latency and size.
RecordListing(k) ==
    /\ count' = count + k
    /\ bytes' = bytes + k * ClampSize(ListSize)
    /\ latencies' = latencies \o [i \in 1..k |-> ClampLatency(ListLatency)]
    /\ nrec' = nrec + k
    /\ sumrec' = sumrec + k * ClampSize(ListSize)

\* get_popular_ids_api(pages=8) / collect_ids_from_listing(pages=6), cut to
\* max_movies*2.  Runs in the main thread before the pool exists.  `held` is what
\* the listing pages held; `failed` is the number of listing requests that raised
\* requests.exceptions.RequestException.
\*   API: the first exception of session.get is not caught and leaves
\*        scrape_api_mt (the pages before it were recorded).
\*   BS4: a failed page is skipped without a sample; no ids at all raises
\*        RuntimeError.
MtListing ==
    /\ script = "mt" /\ mtpc = "start"
    /\ \E held \in SeqsUpTo(Ids, MaxListing), failed \in ListFailures :
         LET pages == ListingPages(mtStrategy)
             got == SubSeq(held, 1, Min(2 * mtMax, Len(held)))
             n == Min(mtMax, Len(got))
         IN  IF mtStrategy = "API_MT" /\ failed > 0
             THEN /\ RecordListing(pages - failed)
                  /\ mtpc' = "raised"
                  /\ UNCHANGED <<mtIds, execCount, future>>
             ELSE /\ RecordListing(pages - failed)
                  /\ mtIds' = got
                  /\ mtpc' = IF mtStrategy = "BS4_MT" /\ got = <<>>
                             THEN "raised" ELSE "submit"
                  /\ execCount' = [i \in 1..n |-> 0]
                  /\ future' = [i \in 1..n |-> "pending"]
    /\ UNCHANGED <<auxVars, pxVars, seVars, script, mtStrategy, mtMax, mtNext, mtQueue, wpc, witem, wok, wtmp,
                   collected, rows>>

\* futs = [ex.submit(fetch, mid, metrics, session) for mid in ids[:max_movies]]
MtSubmit ==
    /\ script = "mt" /\ mtpc = "submit"
    /\ IF mtNext <= Len(Submitted)
         THEN /\ mtQueue' = Append(mtQueue, mtNext)
              /\ mtNext' = mtNext + 1
              /\ mtpc' = mtpc
         ELSE /\ mtpc' = "collect"
              /\ UNCHANGED <<mtQueue, mtNext>>
    /\ UNCHANGED <<auxVars, pxVars, seVars, script, metricVars, mtStrategy, mtIds, mtMax, wpc, witem, wok, wtmp,
                   execCount, future, collected, rows>>

\* The executor's work queue: the item a free worker takes, and what is left.
QueueTake(q) == Head(q)
\* (a queue whose get leaves the item in place)
QueueRestKeeps(q) == q
QueueRest(q) == Tail(q)

\* A free worker thread takes the next work item and calls the fetch function,
\* which starts with r = session.get(url, timeout=..):
\*   "exc":   the request raised; the except clause returns None, nothing recorded
\*   "ok":    r.ok
\*   "notok": not r.ok (or, for the API, a body r.json() rejects): recorded, then None
WorkerTake(w) ==
    /\ script = "mt" /\ wpc[w] = "idle" /\ mtQueue # <<>>
    /\ mtQueue' = QueueRest(mtQueue)
    /\ execCount' = [execCount EXCEPT ![QueueTake(mtQueue)] = @ + 1]
    /\ \E outcome \in {"ok", "notok", "exc"} :
         IF outcome = "exc"
         THEN /\ future' = [future EXCEPT ![QueueTake(mtQueue)] = "none"]
              /\ UNCHANGED <<wpc, witem, wok>>
         ELSE /\ wok' = [wok EXCEPT ![w] = (outcome = "ok")]
              /\ witem' = [witem EXCEPT ![w] = QueueTake(mtQueue)]
              /\ wpc' = [wpc EXCEPT ![w] = "ld_count"]
              /\ UNCHANGED future
    /\ UNCHANGED <<auxVars, pxVars, seVars, script, metricVars, mtStrategy, mtIds, mtMax, mtpc, mtNext, wtmp,
                   collected, rows>>

\* Metrics.record as the worker threads run it: no lock is held, so each
\* `x += e` is a read of x, then a write of x, and other threads run between.
\* self.count += 1 (read)
RecLoadCount(w) ==
    /\ script = "mt" /\ wpc[w] = "ld_count"
    /\ wtmp' = [wtmp EXCEPT ![w] = count]
    /\ nrec' = nrec + 1
    /\ sumrec' = sumrec + ClampSize(SizeOf(Submitted[witem[w]]))
    /\ wpc' = [wpc EXCEPT ![w] = "st_count"]
    /\ UNCHANGED <<auxVars, pxVars, seVars, script, count, bytes, latencies, mtStrategy, mtIds, mtMax, mtpc, mtNext,
                   mtQueue, witem, wok, execCount, future, collected, rows>>

\* self.count += 1 (write)
RecStoreCount(w) ==
    /\ script = "mt" /\ wpc[w] = "st_count"
    /\ count' = wtmp[w] + 1
    /\ wpc' = [wpc EXCEPT ![w] = "ld_bytes"]
    /\ UNCHANGED <<auxVars, pxVars, seVars, script, bytes, latencies, nrec, sumrec, mtStrategy, mtIds, mtMax, mtpc,
                   mtNext, mtQueue, witem, wok, wtmp, execCount, future, collected, rows>>

\* self.bytes += max(0, int(size)) (read)
RecLoadBytes(w) ==
    /\ script = "mt" /\ wpc[w] = "ld_bytes"
    /\ wtmp' = [wtmp EXCEPT ![w] = bytes]
    /\ wpc' = [wpc EXCEPT ![w] = "st_bytes"]
    /\ UNCHANGED <<auxVars, pxVars, seVars, script, metricVars, mtStrategy, mtIds, mtMax, mtpc, mtNext, mtQueue,
                   witem, wok, execCount, future, collected, rows>>

\* self.bytes += max(0, int(size)) (write)
RecStoreBytes(w) ==
    /\ script = "mt" /\ wpc[w] = "st_bytes"
    /\ bytes' = wtmp[w] + ClampSize(SizeOf(Submitted[witem[w]]))
    /\ wpc' = [wpc EXCEPT ![w] = "append"]
    /\ UNCHANGED <<auxVars, pxVars, seVars, script, count, latencies, nrec, sumrec, mtStrategy, mtIds, mtMax, mtpc,
                   mtNext, mtQueue, witem, wok, wtmp, execCount, future, collected, rows>>

\* self.latencies.append(max(0.0, float(latency))): list.append is one step.
\* Then `if not r.ok: return None ... return {...}` touches nothing shared until
\* the worker sets the Future's result.
WorkerReturn(w) ==
    /\ script = "mt" /\ wpc[w] = "append"
    /\ latencies' = Append(latencies, ClampLatency(LatencyOf(Submitted[witem[w]])))
    /\ future' = [future EXCEPT ![witem[w]] = IF wok[w] THEN "row" ELSE "none"]
    /\ wpc' = [wpc EXCEPT ![w] = "idle"]
    /\ witem' = [witem EXCEPT ![w] = 0]
    /\ wtmp' = [wtmp EXCEPT ![w] = 0]
    /\ wok' = [wok EXCEPT ![w] = FALSE]
    /\ UNCHANGED <<auxVars, pxVars, seVars, script, count, bytes, nrec, sumrec, mtStrategy, mtIds, mtMax, mtpc,
                   mtNext, mtQueue, execCount, collected, rows>>

\* `if row:` a result dict is kept, None is not
ResultKeptAlways(result) == TRUE
ResultKept(result) == result = "row"

\* as_completed(futs) yields a future that it has not yielded before
YieldedAgain(i, done) == TRUE
NotYetYielded(i, done) == \A k \in 1..Len(done) : done[k] # i

\* for f in as_completed(futs): row = f.result(); if row: rows.append(row)
\* as_completed yields each finished future once, in completion order.
MtCollect ==
    /\ script = "mt" /\ mtpc = "collect"
    /\ \E i \in 1..Len(Submitted) :
         /\ future[i] # "pending"
         /\ NotYetYielded(i, collected)
         /\ collected' = Append(collected, i)
         /\ rows' = IF ResultKept(future[i]) THEN Append(rows, MtRow(Submitted[i]))
                    ELSE rows
    /\ UNCHANGED <<auxVars, pxVars, seVars, script, metricVars, mtStrategy, mtIds, mtMax, mtpc, mtNext, mtQueue,
                   wpc, witem, wok, wtmp, execCount, future>>

\* leaving the `with` block (executor shutdown, wait=True), then
\* return rows[:max_movies], metrics.summary()
MtFinish ==
    /\ script = "mt" /\ mtpc = "collect"
    /\ Len(collected) = Len(Submitted)
    /\ \A w \in Workers : wpc[w] = "idle"
    /\ rows' = SubSeq(rows, 1, Min(mtMax, Len(rows)))
    /\ mtpc' = "done"
    /\ UNCHANGED <<auxVars, pxVars, seVars, script, metricVars, mtStrategy, mtIds, mtMax, mtNext, mtQueue,
                   wpc, witem, wok, wtmp, execCount, future, collected>>

NextMT ==
    \/ MtListing
    \/ MtSubmit
    \/ \E w \in Workers : WorkerTake(w)
    \/ \E w \in Workers : RecLoadCount(w)
    \/ \E w \in Workers : RecStoreCount(w)
    \/ \E w \in Workers : RecLoadBytes(w)
    \/ \E w \in Workers : RecStoreBytes(w)
    \/ \E w \in Workers : WorkerReturn(w)
    \/ MtCollect
    \/ MtFinish

SpecMT == InitMT /\ [][NextMT]_vars

\* C1: when the workers of a thread-pool run have all finished, no sample is
\* lost: the request count equals the number of record calls made, the byte
\* total equals the sum of the recorded (clamped) sizes, and the latency list
\* holds one entry per call.
C1_NoSampleLost ==
    (script = "mt" /\ mtpc = "done") =>
        /\ count = nrec
        /\ bytes = sumrec
        /\ Len(latencies) = nrec

\* C7: each entry of ids[:max_movies] is passed to the fetch function exactly
\* once, is run by one worker at a time, and the collecting loop receives
\* exactly one result per submitted entry.
C7_EachItemFetchedOnce ==
    script = "mt" =>
        /\ \A i \in 1..Len(execCount) : execCount[i] <= 1
        /\ \A v \in Workers, w \in Workers :
              (v # w /\ witem[v] # 0) => witem[v] # witem[w]
        /\ \A j \in 1..Len(collected), k \in 1..Len(collected) :
              j # k => collected[j] # collected[k]
        /\ \A j \in 1..Len(collected) : future[collected[j]] # "pending"
        /\ mtpc = "done" =>
              /\ Len(execCount) = Len(Submitted)
              /\ \A i \in 1..Len(Submitted) : execCount[i] = 1
              /\ Len(collected) = Len(Submitted)

\* A run that submitted two entries, ran both and collected both results.
C7_Witness ==
    /\ script = "mt" /\ mtpc = "done"
    /\ Len(Submitted) = 2
    /\ Len(collected) = 2
    /\ Len(rows) >= 1

----------------------------------------------------------------------------
(* Proxy runner: step3c_proxy_tor_runner.py                                 *)

InitProxy ==
    /\ AuxIdle
    /\ script = "proxy"
    /\ MtIdle
    /\ SeIdle
    /\ MetricsInit
    /\ pxArg \in {"tor", "none"}
    /\ pxMax \in 1..MaxMovies
    /\ pxProxies = FALSE
    /\ pxpc = "start"
    /\ avail \in 0..MaxAvail
    /\ overlap \in BOOLEAN
    /\ pxPage = 1
    /\ pxIds = <<>>
    /\ pxIdx = 1
    /\ pxRows = [st \in Strategies |-> <<>>]
    /\ pxSum = [st \in Strategies |-> -1]
    /\ yields = <<>>
    /\ pxSaved = {}

\* M = Metrics()
MetricsNew ==
    /\ count' = 0
    /\ bytes' = 0
    /\ latencies' = <<>>
    /\ nrec' = 0
    /\ sumrec' = 0

\* check_tor(): True iff the probe request returned and r.ok; never raises.
check_tor(probe) == probe = "ok"

\* use_tor = (args.proxy == "tor")
\* proxies = {...} if (use_tor and check_tor()) else None
\* then scrape_api starts: M = Metrics(), session, genre_map = fetch_genre_map()
\* whose session.get is not guarded: an exception ends the script.
PxStart ==
    /\ script = "proxy" /\ pxpc = "start"
    /\ \E probe \in {"ok", "notok", "exc"}, genres \in {"ok", "notok", "exc"} :
         /\ pxProxies' = (pxArg = "tor" /\ check_tor(probe))
         /\ IF genres = "exc"
            THEN /\ pxpc' = "raised_genres"
                 /\ MetricsNew
            ELSE /\ pxpc' = "api"
                 /\ count' = 1 /\ nrec' = 1
                 /\ bytes' = ClampSize(ListSize) /\ sumrec' = ClampSize(ListSize)
                 /\ latencies' = <<ClampLatency(ListLatency)>>
    /\ UNCHANGED <<script, auxVars, mtVars, seVars, pxArg, pxMax, avail, overlap, pxPage, pxIds, pxIdx,
                   pxRows, pxSum, yields, pxSaved>>

\* "method": "API_TOR" if proxies else "API"
ApiMethod(proxies) == IF proxies THEN "API_TOR" ELSE "API"
\* "method": "BS4_TOR"
Bs4Method(proxies) == "BS4_TOR"
\* "method": "Selenium_TOR" if use_tor else "Selenium"
SelMethod(use_tor) == IF use_tor THEN "Selenium_TOR" ELSE "Selenium"

\* the rows the `for it in data.get("results", [])` loop appends: one per item
\* until got reaches max_movies
ApiTake(rs, items, max, method) ==
    rs \o [k \in 1..Min(Len(items), Max(0, max - Len(rs))) |->
             [tmdb_id |-> items[k], method |-> method]]

\* scrape_api: one pass of `while got < max_movies`: request the page, record
\* it, append its items, page += 1.  A response that is not OK gives data = {}.
\* The loop ends only when got reaches max_movies.
PxApiPage ==
    /\ script = "proxy" /\ pxpc = "api"
    /\ Len(pxRows["api"]) < pxMax
    /\ pxPage <= MaxPage
    /\ \E resp \in {"ok", "notok", "exc"} :
         IF resp = "exc"
         THEN /\ pxpc' = "raised_listing"
              /\ UNCHANGED <<metricVars, pxPage, pxRows, pxSum, yields>>
         ELSE LET items == IF resp = "ok" THEN CatalogPage(pxPage) ELSE <<>>
                  rs == ApiTake(pxRows["api"], items, pxMax, ApiMethod(pxProxies))
              IN  /\ Record(ListLatency, ListSize)
                  /\ pxRows' = [pxRows EXCEPT !["api"] = rs]
                  /\ yields' = Append(yields, Len(items))
                  /\ IF Len(rs) < pxMax
                     THEN /\ pxPage' = pxPage + 1
                          /\ UNCHANGED <<pxpc, pxSum>>
                     ELSE \* S = M.sum(); return rows, S
                          /\ pxSum' = [pxSum EXCEPT !["api"] = count']
                          /\ pxpc' = "bs4_new"
                          /\ pxPage' = pxPage + 1
    /\ UNCHANGED <<script, auxVars, mtVars, seVars, pxArg, pxMax, pxProxies, avail, overlap, pxIds, pxIdx,
                   pxSaved>>

\* scrape_bs4 starts: session, M = Metrics(), rows = []; get_ids_from_listing
\* starts with ids = [], page = 1.
PxBs4New ==
    /\ script = "proxy" /\ pxpc = "bs4_new"
    /\ MetricsNew
    /\ pxPage' = 1
    /\ pxIds' = <<>>
    /\ yields' = <<>>
    /\ pxpc' = "bs4_list"
    /\ UNCHANGED <<script, auxVars, mtVars, seVars, pxArg, pxMax, pxProxies, avail, overlap, pxIdx,
                   pxRows, pxSum, pxSaved>>

\* ids after the `for c in cards` loop: append until len(ids) >= max_ids
IdsTake(ids, items, max_ids) ==
    ids \o SubSeq(items, 1, Min(Len(items), Max(0, max_ids - Len(ids))))

\* get_ids_from_listing(max_movies*2, ..): one pass of `while len(ids) < max_ids`.
\* `if not r.ok: break` is the only break; a page without cards goes on to the
\* next page.  When the loop ends, scrape_bs4 keeps ids[:max_movies].
PxBs4ListPage ==
    /\ script = "proxy" /\ pxpc = "bs4_list"
    /\ Len(pxIds) < 2 * pxMax
    /\ pxPage <= MaxPage
    /\ \E resp \in {"ok", "notok", "exc"} :
         IF resp = "exc"
         THEN /\ pxpc' = "raised_listing"
              /\ UNCHANGED <<metricVars, pxPage, pxIds, pxIdx, yields>>
         ELSE LET items == IF resp = "ok" THEN CatalogPage(pxPage) ELSE <<>>
                  ids == IdsTake(pxIds, items, 2 * pxMax)
                  over == resp = "notok" \/ Len(ids) >= 2 * pxMax
              IN  /\ Record(ListLatency, ListSize)
                  /\ yields' = Append(yields, Len(items))
                  /\ pxPage' = IF resp = "notok" THEN pxPage ELSE pxPage + 1
                  /\ pxIds' = IF over THEN SubSeq(ids, 1, Min(pxMax, Len(ids))) ELSE ids
                  /\ pxIdx' = 1
                  /\ pxpc' = IF over THEN "bs4_detail" ELSE pxpc
    /\ UNCHANGED <<script, auxVars, mtVars, seVars, pxArg, pxMax, pxProxies, avail, overlap, pxRows, pxSum,
                   pxSaved>>

\* scrape_bs4: `for i in ids: row = fetch_detail_bs4(i, session, M)`.
\* fetch_detail_bs4 does not guard session.get; a response that is not OK
\* returns None and the loop goes on.  After the last id: S = M.sum().
PxBs4Detail ==
    /\ script = "proxy" /\ pxpc = "bs4_detail"
    /\ IF pxIdx <= Len(pxIds)
       THEN \E resp \in {"ok", "notok", "exc"} :
              IF resp = "exc"
              THEN /\ pxpc' = "raised_detail"
                   /\ UNCHANGED <<metricVars, pxIdx, pxRows, pxSum>>
              ELSE /\ Record(LatencyOf(pxIds[pxIdx]), SizeOf(pxIds[pxIdx]))
                   /\ pxRows' = [pxRows EXCEPT !["bs4"] =
                          IF resp = "ok"
                          THEN Append(@, [tmdb_id |-> pxIds[pxIdx],
                                          method |-> Bs4Method(pxProxies)])
                          ELSE @]
                   /\ pxIdx' = pxIdx + 1
                   /\ UNCHANGED <<pxpc, pxSum>>
       ELSE /\ pxSum' = [pxSum EXCEPT !["bs4"] = count]
            /\ pxpc' = "sel_new"
            /\ UNCHANGED <<metricVars, pxIdx, pxRows>>
    /\ UNCHANGED <<script, auxVars, mtVars, seVars, pxArg, pxMax, pxProxies, avail, overlap, pxPage, pxIds,
                   yields, pxSaved>>

----------------------------------------------------------------------------
(* Headless-browser strategy and its navigation state machine.              *)
(*   baseline: step1 scrape_selenium         (driver.get, unguarded)        *)
(*   mt:       step3b scrape_selenium_detail (safe_get, 188-195)            *)
(*   proxy:    step3c scrape_selenium        (safe_get, 163-191)            *)

NavResults == {"loaded", "timeout", "error"}

\* step3c safe_get, one pass of `for attempt in range(retries + 1)`:
\* driver.get returned; TimeoutException -> window.stop(), partial DOM;
\* any other exception -> retry until attempt >= retries.
safe_get_timeout_retried(attempt, result) ==
    CASE result = "loaded"  -> "Loaded"
      [] OTHER              -> IF attempt >= SEL_RETRIES THEN "Failed" ELSE "Loading"
safe_get_proxy(attempt, result) ==
    CASE result = "loaded"  -> "Loaded"
      [] result = "timeout" -> "Partial"
      [] OTHER              -> IF attempt >= SEL_RETRIES THEN "Failed" ELSE "Loading"

\* step3b safe_get, one pass: `except Exception` also catches TimeoutException.
safe_get_mt(attempt, result) ==
    IF result = "loaded" THEN "Loaded"
    ELSE IF attempt = MtRetries THEN "Failed" ELSE "Loading"

\* step1: driver.get(url) inside `try: ... finally: driver.quit()`, no except.
driver_get(attempt, result) ==
    IF result = "loaded" THEN "Loaded" ELSE "Raised"

NavStep(variant, attempt, result) ==
    CASE variant = "proxy" -> safe_get_proxy(attempt, result)
      [] variant = "mt"    -> safe_get_mt(attempt, result)
      [] OTHER             -> driver_get(attempt, result)

\* "method" of the rows of each variant
SeMethod(variant, use_tor) ==
    CASE variant = "proxy" -> SelMethod(use_tor)
      [] variant = "mt"    -> "Selenium_MP"
      [] OTHER             -> "Selenium"

InSeqNever(x, q) == FALSE
InSeq(x, q) == \E k \in 1..Len(q) : q[k] = x

\* `finally: driver.quit()`: leaving the try block, by its end or by an
\* exception, calls driver.quit() once
driver_quit_missing(quits) == quits
driver_quit(quits) == quits + 1

RECURSIVE AddNew(_, _, _)
\* step3c: `if i and i not in ids: ids.append(i)`, `if len(ids)>=max_movies: break`
AddNew(ids, items, max) ==
    IF items = <<>> THEN ids
    ELSE LET next == IF InSeq(Head(items), ids) THEN ids ELSE Append(ids, Head(items))
         IN  IF Len(next) >= max THEN next ELSE AddNew(next, Tail(items), max)

RECURSIVE Unvisited(_, _)
\* step3b: `if mid and mid not in visited: visited.add(mid); detail_urls.append(..)`
Unvisited(items, visited) ==
    IF items = <<>> THEN <<>>
    ELSE IF Head(items) \in visited
         THEN Unvisited(Tail(items), visited)
         ELSE <<Head(items)>> \o Unvisited(Tail(items), visited \cup {Head(items)})

SeqToSet(q) == {q[k] : k \in 1..Len(q)}

\* the `while` condition of the listing loop
SeListGoesOn ==
    IF seVariant = "proxy" THEN Len(seCand) < seMax ELSE Len(seRows) < seMax

\* One driver.get of a listing page, and, once safe_get has returned, the rest
\* of the loop body.  `snap`: cards in the DOM a timed-out load left behind;
\* `late` (step1): the cards appeared only after page_source was read.
SeListNav ==
    /\ sepc = "list"
    /\ SeListGoesOn
    /\ sePage <= MaxPage
    /\ \E result \in NavResults, snap \in 0..PageSize, late \in BOOLEAN :
         LET st == NavStep(seVariant, navAttempt, result)
             page == CatalogPage(sePage)
             items == IF st = "Partial" THEN SubSeq(page, 1, Min(snap, Len(page))) ELSE page
         IN  /\ snap <= Len(page)
             /\ (st # "Partial") => snap = Len(page)
             /\ (seVariant # "baseline" \/ st # "Loaded" \/ page = <<>>) => ~late
             /\ navLast' = result
             /\ navCalls' = navCalls + 1
             /\ navState' = st
             /\ navAttempt' = IF st = "Loading" THEN navAttempt + 1 ELSE 0
             /\ CASE st = "Loading" ->
                       UNCHANGED <<metricVars, yields, sepc, sePage, seCand, seIdx,
                                   seVisited, seQuit>>
                  [] st = "Raised" ->
                       \* the exception leaves scrape_selenium through `finally`
                       /\ sepc' = "raised"
                       /\ seQuit' = driver_quit(seQuit)
                       /\ UNCHANGED <<metricVars, yields, sePage, seCand, seIdx, seVisited>>
                  [] st # "Loading" /\ st # "Raised" /\ seVariant = "proxy" ->
                       \* html = drv.page_source; M.rec(..) comes before the test
                       /\ Record(ListLatency, ListSize)
                       /\ IF st = "Failed"
                          THEN /\ sepc' = "detail"
                               /\ seCand' = SubSeq(seCand, 1, Min(seMax, Len(seCand)))
                               /\ UNCHANGED <<yields, sePage>>
                          ELSE LET ids == AddNew(seCand, items, seMax)
                               IN  /\ yields' = Append(yields, Len(items))
                                   /\ sePage' = sePage + 1
                                   /\ seCand' = IF Len(ids) >= seMax
                                                THEN SubSeq(ids, 1, seMax) ELSE ids
                                   /\ sepc' = IF Len(ids) >= seMax THEN "detail" ELSE sepc
                       /\ seIdx' = 1
                       /\ UNCHANGED <<seVisited, seQuit>>
                  [] st # "Loading" /\ st # "Raised" /\ seVariant = "mt" ->
                       IF st = "Failed"
                       THEN \* if not safe_get(driver, list_url): break
                            /\ sepc' = "finish"
                            /\ UNCHANGED <<metricVars, yields, sePage, seCand, seIdx,
                                           seVisited, seQuit>>
                       ELSE /\ Record(ListLatency, ListSize)
                            /\ yields' = Append(yields, Len(items))
                            /\ seCand' = Unvisited(items, seVisited)
                            /\ seVisited' = seVisited \cup SeqToSet(items)
                            /\ seIdx' = 1
                            /\ sepc' = IF items = <<>> THEN "finish" ELSE "detail"
                            /\ UNCHANGED <<sePage, seQuit>>
                  [] OTHER ->
                       \* step1: record, then wait.until(cards present) raises
                       \* TimeoutException when the page never shows a card
                       /\ Record(ListLatency, ListSize)
                       /\ yields' = Append(yields, IF late THEN 0 ELSE Len(items))
                       /\ IF items = <<>>
                          THEN /\ sepc' = "raised"
                               /\ seQuit' = driver_quit(seQuit)
                               /\ UNCHANGED <<seCand, seIdx>>
                          ELSE /\ sepc' = IF late THEN "finish" ELSE "detail"
                               /\ seCand' = IF late THEN seCand ELSE items
                               /\ seIdx' = 1
                               /\ UNCHANGED seQuit
                       /\ UNCHANGED <<sePage, seVisited>>
    /\ UNCHANGED <<script, auxVars, mtVars, pxVars_noYields, seVariant, seMax, seTor, seRows, seFallback, fbLast,
                   seNav>>

\* two calls of Metrics.record made one after the other by one thread
Record2(latency1, size1, latency2, size2) ==
    /\ count' = count + 2
    /\ bytes' = bytes + ClampSize(size1) + ClampSize(size2)
    /\ latencies' = latencies \o <<ClampLatency(latency1), ClampLatency(latency2)>>
    /\ nrec' = nrec + 2
    /\ sumrec' = sumrec + ClampSize(size1) + ClampSize(size2)

\* the session of the fallback fetch:
\* make_session({"http": TOR_PROXY, "https": TOR_PROXY} if use_tor else None)
FallbackAlwaysTor(use_tor) == TRUE
FallbackViaTor(use_tor) == use_tor

\* the fallback fetch yields a record: `if rr.ok:` parses rr.text; a status
\* that is not OK and an exception both `continue`
FallbackAlwaysRow(fb) == TRUE
FallbackGivesRow(fb) == fb = "ok"

\* One driver.get of a detail page, and, once safe_get has returned, the rest
\* of the loop body.  `fb`: how the fallback request of step3c ends.
SeDetailNav ==
    /\ sepc = "detail"
    /\ seIdx <= Len(seCand)
    /\ seVariant # "proxy" => Len(seRows) < seMax
    /\ \E result \in NavResults, fb \in {"ok", "notok", "exc"} :
         LET st == NavStep(seVariant, navAttempt, result)
             id == seCand[seIdx]
             row == [tmdb_id |-> id, method |-> SeMethod(seVariant, seTor)]
         IN  /\ (seVariant # "proxy" \/ st # "Failed") => fb = "ok"
             /\ navLast' = result
             /\ navCalls' = navCalls + 1
             /\ navState' = st
             /\ navAttempt' = IF st = "Loading" THEN navAttempt + 1 ELSE 0
             /\ seNav' = IF st = "Loading" THEN seNav ELSE Append(seNav, id)
             /\ CASE st = "Loading" ->
                       UNCHANGED <<metricVars, sepc, seIdx, seRows, seFallback, fbLast, seQuit>>
                  [] st = "Raised" ->
                       /\ sepc' = "raised"
                       /\ seQuit' = driver_quit(seQuit)
                       /\ UNCHANGED <<metricVars, seIdx, seRows, seFallback, fbLast>>
                  [] st = "Failed" /\ seVariant = "proxy" ->
                       \* the page source is recorded, then the same URL is
                       \* fetched through fallback_session
                       /\ seFallback' = Append(seFallback, FallbackViaTor(seTor))
                       /\ IF fb = "exc"
                          THEN Record(LatencyOf(id), SizeOf(id))
                          ELSE Record2(LatencyOf(id), SizeOf(id), LatencyOf(id), SizeOf(id))
                       /\ fbLast' = fb
                       /\ seRows' = IF FallbackGivesRow(fb) THEN Append(seRows, row)
                                    ELSE seRows
                       /\ seIdx' = seIdx + 1
                       /\ UNCHANGED <<sepc, seQuit>>
                  [] st = "Failed" /\ seVariant # "proxy" ->
                       \* if not safe_get(driver, mu): continue
                       /\ seIdx' = seIdx + 1
                       /\ UNCHANGED <<metricVars, sepc, seRows, seFallback, fbLast, seQuit>>
                  [] OTHER ->
                       /\ Record(LatencyOf(id), SizeOf(id))
                       /\ seRows' = Append(seRows, row)
                       /\ seIdx' = seIdx + 1
                       /\ UNCHANGED <<sepc, seFallback, fbLast, seQuit>>
    /\ UNCHANGED <<script, auxVars, mtVars, pxVars, seVariant, seMax, seTor, sePage, seCand,
                   seVisited>>

\* The detail loop is over (no id left, or `if len(rows) >= max_movies: break`).
\* step1 and step3b: page += 1 and back to the `while`; step3c: the loop was the
\* last statement of the try block.
SeAdvance ==
    /\ sepc = "detail"
    /\ \/ seIdx > Len(seCand)
       \/ seVariant # "proxy" /\ Len(seRows) >= seMax
    /\ IF seVariant = "proxy"
       THEN /\ sepc' = "finish"
            /\ UNCHANGED sePage
       ELSE /\ sePage' = sePage + 1
            /\ sepc' = IF Len(seRows) < seMax THEN "list" ELSE "finish"
    /\ UNCHANGED <<script, auxVars, metricVars, mtVars, pxVars, seVariant, seMax, seTor, seCand,
                   seIdx, seRows, seVisited, navAttempt, navState, navLast, navCalls,
                   seFallback, fbLast, seNav, seQuit>>

\* finally: driver.quit(); then the summary and `return rows, S`
\* (step3b: rows[:max_movies])
SeFinish ==
    /\ sepc = "finish"
    /\ seQuit' = driver_quit(seQuit)
    /\ seRows' = IF seVariant = "mt" THEN SubSeq(seRows, 1, Min(seMax, Len(seRows)))
                 ELSE seRows
    /\ sepc' = "done"
    /\ UNCHANGED <<script, auxVars, metricVars, mtVars, pxVars, seVariant, seMax, seTor, sePage,
                   seCand, seIdx, seVisited, navAttempt, navState, navLast, navCalls,
                   seFallback, fbLast, seNav>>

InitNav ==
    /\ AuxIdle
    /\ script = "nav"
    /\ MtIdle
    /\ MetricsInit
    /\ pxArg = "none" /\ pxMax = 0 /\ pxProxies = FALSE /\ pxpc = "off"
    /\ pxPage = 1 /\ pxIds = <<>> /\ pxIdx = 1
    /\ pxRows = [st \in Strategies |-> <<>>]
    /\ pxSum = [st \in Strategies |-> -1]
    /\ pxSaved = {}
    /\ yields = <<>>
    /\ avail \in 0..MaxAvail
    /\ overlap \in BOOLEAN
    /\ seVariant \in {"baseline", "mt", "proxy"}
    /\ seTor \in (IF seVariant = "proxy" THEN BOOLEAN ELSE {FALSE})
    /\ seMax \in 1..MaxNavMovies
    /\ sepc = "list"
    /\ sePage = 1
    /\ seCand = <<>>
    /\ seIdx = 1
    /\ seRows = <<>>
    /\ seVisited = {}
    /\ navAttempt = 0
    /\ navState = "Idle"
    /\ navLast = "none"
    /\ navCalls = 0
    /\ seFallback = <<>>
    /\ fbLast = "none"
    /\ seNav = <<>>
    /\ seQuit = 0

NextNav ==
    \/ SeListNav
    \/ SeDetailNav
    \/ SeAdvance
    \/ SeFinish

SpecNav == InitNav /\ [][NextNav]_vars

\* scrape_selenium(args.max, use_tor=(proxies is not None)) starts:
\* webdriver.Chrome(..) is created before the try block; then the fallback
\* session, M = Metrics(), rows = [], page = 1, ids = [].
PxSelNew ==
    /\ script = "proxy" /\ pxpc = "sel_new"
    /\ MetricsNew
    /\ yields' = <<>>
    /\ pxPage' = 1 /\ pxIds' = <<>> /\ pxIdx' = 1
    /\ \E chrome \in {"ok", "exc"} :
         IF chrome = "exc"
         THEN /\ pxpc' = "raised_chrome"
              /\ UNCHANGED <<seVariant, sepc, seMax, seTor>>
         ELSE /\ pxpc' = "sel"
              /\ seVariant' = "proxy"
              /\ sepc' = "list"
              /\ seMax' = pxMax
              /\ seTor' = pxProxies
    /\ UNCHANGED <<script, auxVars, mtVars, pxArg, pxMax, pxProxies, avail, overlap, pxRows, pxSum,
                   pxSaved, sePage, seCand, seIdx, seRows, seVisited, navAttempt, navState,
                   navLast, navCalls, seFallback, fbLast, seNav, seQuit>>

\* se_rows, se_m = scrape_selenium(..) returns; save_rows x3, save_metrics_table,
\* the JSON summary.
PxSave ==
    /\ script = "proxy" /\ pxpc = "sel" /\ sepc = "done"
    /\ pxRows' = [pxRows EXCEPT !["sel"] = seRows]
    /\ pxSum' = [pxSum EXCEPT !["sel"] = count]
    /\ pxSaved' = Strategies
    /\ pxpc' = "done"
    /\ UNCHANGED <<script, auxVars, metricVars, mtVars, seVars, pxArg, pxMax, pxProxies, avail,
                   overlap, pxPage, pxIds, pxIdx, yields>>

NextProxy ==
    \/ PxStart
    \/ PxApiPage
    \/ PxBs4New
    \/ PxBs4ListPage
    \/ PxBs4Detail
    \/ PxSelNew
    \/ SeListNav
    \/ SeDetailNav
    \/ SeAdvance
    \/ SeFinish
    \/ PxSave

SpecProxy == InitProxy /\ [][NextProxy]_vars

----------------------------------------------------------------------------
(* Entry points: step1 main() and step3b __main__, each strategy call seen   *)
(* from its caller: it returns rows or raises.                               *)

\* rows a strategy hands back: the entries of ids[:max] whose index is in oks
RECURSIVE RowsOf(_, _, _, _)
RowsOf(ids, oks, k, method) ==
    IF k > Len(ids) THEN <<>>
    ELSE (IF k \in oks THEN <<[tmdb_id |-> ids[k], method |-> method]>> ELSE <<>>)
         \o RowsOf(ids, oks, k + 1, method)

Cut(ids, max) == SubSeq(ids, 1, Min(max, Len(ids)))

\* What a strategy call does, given the ids its listing found, the set of
\* entries whose detail fetch worked, and whether a request it does not guard
\* raised.  "raise" or the rows returned.
\*   step3b scrape_api_mt: get_popular_ids_api does not guard session.get;
\*       fetch_movie_api returns None on any failure.
\*   step3b scrape_bs4_mt: the listing guards its requests; no ids at all
\*       raises RuntimeError; fetch_bs4_detail returns None on failure.
\*   step3b scrape_selenium_detail: webdriver.Chrome(..) is not guarded;
\*       safe_get guards every navigation.
\*   step1 scrape_api / scrape_bs4 / scrape_selenium: listing requests and
\*       driver.get are not guarded; a BS4 detail failure still yields a row.
StrategyRaises(scr, st, ids, unguarded) ==
    \/ unguarded /\ ~(scr = "mt" /\ st = "bs4")
    \/ scr = "mt" /\ st = "bs4" /\ ids = <<>>

StrategyRows(scr, st, ids, oks, max) ==
    LET method == CASE scr = "mt" /\ st = "api" -> "API_MT"
                    [] scr = "mt" /\ st = "bs4" -> "BS4_MT"
                    [] scr = "mt" /\ st = "sel" -> "Selenium_MP"
                    [] scr # "mt" /\ st = "api" -> "API"
                    [] scr # "mt" /\ st = "bs4" -> "BS4"
                    [] OTHER -> "Selenium"
        kept == IF scr = "mt" THEN oks ELSE 1..Len(ids)
    IN  RowsOf(Cut(ids, max), kept, 1, method)

InitMain ==
    /\ script = "main"
    /\ MtIdle /\ PxIdle /\ SeIdle /\ TrIdle /\ JnIdle /\ ApIdle /\ BsIdle /\ NmIdle /\ ExtIdle
    /\ MetricsInit
    /\ mnScript \in {"unified", "mt"}
    /\ mnFlags \in (IF mnScript = "mt" THEN {Strategies} ELSE SUBSET Strategies)
    /\ mnMax \in 1..MaxMovies
    /\ mnpc = "api"
    /\ mnRes = [st \in Strategies |-> <<>>]
    /\ mnFailed = {}
    /\ mnSaved = {}

NextStage(st) == CASE st = "api" -> "bs4" [] st = "bs4" -> "sel" [] OTHER -> "save"

\* One strategy call of the entry point.
\*   step1 main: `if run_x: try: x_res = scrape_x(..) except Exception: print`
\*               (x_res keeps its empty default)
\*   step3b __main__: `x_rows, x_m = scrape_x(max_movies=args.max)`, unguarded
MnStrategy(st) ==
    /\ script = "main" /\ mnpc = st
    /\ IF st \notin mnFlags
       THEN /\ mnpc' = NextStage(st)
            /\ UNCHANGED <<mnRes, mnFailed>>
       ELSE \E ids \in SeqsUpTo(Ids, MaxListing), oks \in SUBSET (1..MaxListing),
               unguarded \in BOOLEAN :
              IF StrategyRaises(mnScript, st, ids, unguarded)
              THEN /\ mnFailed' = mnFailed \cup {st}
                   /\ mnpc' = IF mnScript = "mt" THEN "raised" ELSE NextStage(st)
                   /\ UNCHANGED mnRes
              ELSE /\ mnRes' = [mnRes EXCEPT ![st] = StrategyRows(mnScript, st, ids, oks, mnMax)]
                   /\ mnpc' = NextStage(st)
                   /\ UNCHANGED mnFailed
    /\ UNCHANGED <<script, metricVars, mtVars, pxVars, seVars, trVars, jnVars, apVars, bsVars, nmVars, extVars, mnScript, mnFlags, mnMax,
                   mnSaved>>

\* step1 compare_and_save -> save_per_method: the three CSVs, requested or not;
\* step3b: save_rows(api_rows, ..), save_rows(bs4_rows, ..), save_rows(sel_rows, ..)
MnSave ==
    /\ script = "main" /\ mnpc = "save"
    /\ mnSaved' = Strategies
    /\ mnpc' = "done"
    /\ UNCHANGED <<script, metricVars, mtVars, pxVars, seVars, trVars, jnVars, apVars, bsVars, nmVars, extVars, mnScript, mnFlags, mnMax,
                   mnRes, mnFailed>>

NextMain ==
    \/ \E st \in Strategies : MnStrategy(st)
    \/ MnSave

SpecMain == InitMain /\ [][NextMain]_vars

----------------------------------------------------------------------------
(* Transport: one session.get of a detail fetch, with the retries that the   *)
(* mounted HTTPAdapter makes inside it, and the caller's metrics.record.     *)

RetryTotalUnified == 4
RetryTotalMt == 6

\* make_session: Retry(total=..) mounted on the session
RetryTotal(caller) == IF caller = "details" THEN RetryTotalUnified ELSE RetryTotalMt

\* what one attempt on the wire comes back with: a 2xx, a status outside
\* status_forcelist, a status of status_forcelist, a connection/read error
TrOutcomes == {"ok", "notok", "forcelist", "error"}

\* Retry.increment / is_exhausted: the attempt is repeated while total is left
RetriedAnyStatus(outcome, budget) == outcome \in {"notok", "forcelist", "error"} /\ budget > 0
Retried(outcome, budget) == outcome \in {"forcelist", "error"} /\ budget > 0

InitTransport ==
    /\ script = "transport"
    /\ MtIdle /\ PxIdle /\ SeIdle /\ MnIdle /\ JnIdle /\ ApIdle /\ BsIdle /\ NmIdle /\ ExtIdle
    /\ MetricsInit
    /\ trCaller \in {"details", "api_mt"}
    /\ trLeft \in 1..MaxMovies
    /\ trpc = "call"
    /\ trBudget = 0
    /\ trWire = 0
    /\ trTry = 0
    /\ trLast = "none"
    /\ trRaised = 0

\* `t0 = time.time(); resp = session.get(url, timeout=20)`: the call starts
TrCall ==
    /\ script = "transport" /\ trpc = "call" /\ trLeft > 0
    /\ trBudget' = RetryTotal(trCaller)
    /\ trTry' = 0
    /\ trpc' = "wire"
    /\ UNCHANGED <<script, metricVars, mtVars, pxVars, seVars, mnVars, jnVars, apVars, bsVars, nmVars, extVars, trCaller,
                   trLeft, trWire, trLast, trRaised>>

\* One attempt on the wire.  A retried attempt stays inside session.get; a
\* response makes session.get return and the caller records one sample; an
\* exhausted Retry makes session.get raise and the caller's except clause
\* returns without recording.
TrAttempt ==
    /\ script = "transport" /\ trpc = "wire"
    /\ \E outcome \in TrOutcomes, latency \in 1..2, size \in 1..2 :
         /\ trWire' = trWire + 1
         /\ trTry' = trTry + 1
         /\ trLast' = outcome
         /\ IF Retried(outcome, trBudget)
            THEN /\ trBudget' = trBudget - 1
                 /\ UNCHANGED <<metricVars, trpc, trLeft, trRaised>>
            ELSE /\ trBudget' = 0
                 /\ trLeft' = trLeft - 1
                 /\ trpc' = IF trLeft = 1 THEN "done" ELSE "call"
                 /\ IF outcome \in {"ok", "notok"}
                    THEN Record(latency, size) /\ UNCHANGED trRaised
                    ELSE trRaised' = trRaised + 1 /\ UNCHANGED metricVars
    /\ UNCHANGED <<script, mtVars, pxVars, seVars, mnVars, jnVars, apVars, bsVars, nmVars, extVars, trCaller>>

NextTransport == TrCall \/ TrAttempt

SpecTransport == InitTransport /\ [][NextTransport]_vars

----------------------------------------------------------------------------
(* build_common_by_id: the inner join of the three result lists on tmdb_id.  *)

\* tmdb_id of a record whose id could not be read: parse_tmdb_id_from_url
\* returns None when the URL has no /movie/<digits>, m.get("id") when absent
Null == 0
JoinIds == {Null, 1, 2}
MaxRows == 2

MkRecs(source, ids) ==
    [k \in 1..Len(ids) |-> [tmdb_id |-> ids[k], title |-> <<source, k>>]]

\* DataFrame.merge(on="tmdb_id") matches rows whose keys are equal; rows whose
\* key is null on both sides are matched against each other
KeyMatchAny(l, r) == TRUE
KeyMatch(l, r) == l.tmdb_id = r.tmdb_id

\* dtype of the tmdb_id column pd.DataFrame(rows) builds: object when every
\* id is None, numeric (int64, or float64 with NaN) otherwise
KeyDtype(ids) == IF \A k \in 1..Len(ids) : ids[k] = Null THEN "object" ELSE "numeric"

\* merge compares the dtypes of the two key columns before it joins and may
\* refuse (ValueError) an object column against a numeric one
DtypesDiffer(a, b, c) ==
    /\ a # <<>> /\ b # <<>> /\ c # <<>>
    /\ Cardinality({KeyDtype(a), KeyDtype(b), KeyDtype(c)}) > 1

\* the rows of `right` that match one row of `left`, in the order of `right`
RECURSIVE MatchesOf(_, _, _)
MatchesOf(l, right, k) ==
    IF k > Len(right) THEN <<>>
    ELSE (IF KeyMatch(l, right[k]) THEN <<<<l, right[k]>>>> ELSE <<>>)
         \o MatchesOf(l, right, k + 1)

\* inner merge: one output row per matching pair, in the order of `left`
RECURSIVE Merge(_, _, _)
Merge(left, right, k) ==
    IF k > Len(left) THEN <<>>
    ELSE MatchesOf(left[k], right, 1) \o Merge(left, right, k + 1)

\* the column of `common` the tidy table takes as its title: "title_api"
TidyTitleBs4(row) == row.title_bs4
TidyTitle(row) == row.title_api

\* common = a_.merge(b_, on="tmdb_id").merge(s_, on="tmdb_id");
\* tidy = common[["tmdb_id", "title_api", ..]] renamed to the plain columns
build_common_by_id(api_movies, bs4_movies, selenium_movies) ==
    IF api_movies = <<>> \/ bs4_movies = <<>> \/ selenium_movies = <<>>
    THEN <<>>
    ELSE LET ab == Merge(api_movies, bs4_movies, 1)
             a_b == [k \in 1..Len(ab) |->
                        [tmdb_id |-> ab[k][1].tmdb_id,
                         title_api |-> ab[k][1].title,
                         title_bs4 |-> ab[k][2].title]]
             common == Merge(a_b, selenium_movies, 1)
         IN  [k \in 1..Len(common) |->
                [tmdb_id |-> common[k][1].tmdb_id,
                 title |-> TidyTitle(common[k][1])]]

ScenarioA == <<1, 2, 3>>
ScenarioB == <<2, 3, 4>>
ScenarioC == <<3, 4, 5>>

InitJoin ==
    /\ script = "join"
    /\ MtIdle /\ PxIdle /\ SeIdle /\ MnIdle /\ TrIdle /\ ApIdle /\ BsIdle /\ NmIdle /\ ExtIdle
    /\ MetricsInit
    /\ \/ /\ jnA \in SeqsUpTo(JoinIds, MaxRows)
          /\ jnB \in SeqsUpTo(JoinIds, MaxRows)
          /\ jnC \in SeqsUpTo(JoinIds, MaxRows)
       \/ jnA = ScenarioA /\ jnB = ScenarioB /\ jnC = ScenarioC
    /\ jnpc = "ready"
    /\ jnOut = <<>>
    /\ jnCount = 0

\* compare_and_save: common_count = build_common_by_id(api_movies, ..)
JoinApply ==
    /\ script = "join" /\ jnpc = "ready"
    /\ \E refused \in {r \in BOOLEAN : r => DtypesDiffer(jnA, jnB, jnC)} :
         IF refused
         THEN /\ jnpc' = "raised"
              /\ UNCHANGED <<jnOut, jnCount>>
         ELSE /\ jnOut' = build_common_by_id(MkRecs("api", jnA), MkRecs("bs4", jnB),
                                             MkRecs("selenium", jnC))
              /\ jnCount' = Len(jnOut')
              /\ jnpc' = "done"
    /\ UNCHANGED <<script, metricVars, mtVars, pxVars, seVars, mnVars, trVars, apVars, bsVars, nmVars, extVars, jnA, jnB, jnC>>

NextJoin == JoinApply

SpecJoin == InitJoin /\ [][NextJoin]_vars

----------------------------------------------------------------------------
(* The API strategy page by page: step1 scrape_api and step3b                *)
(* get_popular_ids_api / scrape_api_mt.                                      *)

MaxTarget == 3

\* ids of the items on listing page p of a source that has apAvail items and
\* puts apK of them on a page
ApCatalogPage(p) == Range((p - 1) * apK + 1, Min(p * apK, apAvail))

\* page += 1 / the next value of `for page in range(1, pages+1)`
NextPageStays(page) == page
NextPage(page) == page + 1

\* "method" of the rows
ApMethod(variant) == IF variant = "unified" THEN "API" ELSE "API_MT"

InitApi ==
    /\ script = "api"
    /\ MtIdle /\ PxIdle /\ SeIdle /\ MnIdle /\ TrIdle /\ JnIdle /\ BsIdle /\ NmIdle /\ ExtIdle
    /\ MetricsInit
    /\ apVariant \in {"unified", "mt"}
    /\ apMax \in 1..MaxTarget
    /\ apK \in 1..PageSize
    /\ apAvail \in 0..MaxAvail
    /\ appc = "list"
    /\ apPage = 1
    /\ apPages = <<>>
    /\ apAllOk = TRUE
    /\ apIds = <<>>
    /\ apIdx = 1
    /\ apRows = <<>>

\* step1 scrape_api, one pass of `while fetched < max_movies`: request the
\* page (not guarded), record it, `if not results: break`, append items until
\* fetched reaches max_movies, page += 1.
ApUnifiedPage ==
    /\ script = "api" /\ apVariant = "unified" /\ appc = "list"
    /\ \E resp \in {"ok", "notok", "exc"} :
         /\ apPages' = Append(apPages, apPage)
         /\ apAllOk' = (apAllOk /\ resp = "ok")
         /\ IF resp = "exc"
            THEN /\ appc' = "raised"
                 /\ UNCHANGED <<metricVars, apPage, apRows>>
            ELSE LET results == IF resp = "ok" THEN ApCatalogPage(apPage) ELSE <<>>
                     rs == ApiTake(apRows, results, apMax, ApMethod(apVariant))
                 IN  /\ Record(ListLatency, ListSize)
                     /\ IF results = <<>>
                        THEN /\ appc' = "done"
                             /\ UNCHANGED <<apPage, apRows>>
                        ELSE /\ apRows' = rs
                             /\ apPage' = NextPage(apPage)
                             /\ appc' = IF Len(rs) < apMax THEN "list" ELSE "done"
    /\ UNCHANGED <<script, mtVars, pxVars, seVars, mnVars, trVars, jnVars, bsVars, nmVars, extVars, apVariant, apMax, apK,
                   apAvail, apIds, apIdx>>

\* step3b get_popular_ids_api, one pass of `for page in range(1, pages+1)`:
\* request the page (not guarded), record it, keep its ids; after the last
\* page scrape_api_mt cuts the list to max_movies*2.
ApMtPage ==
    /\ script = "api" /\ apVariant = "mt" /\ appc = "list"
    /\ \E resp \in {"ok", "notok", "exc"} :
         /\ apPages' = Append(apPages, apPage)
         /\ apAllOk' = (apAllOk /\ resp = "ok")
         /\ IF resp = "exc"
            THEN /\ appc' = "raised"
                 /\ UNCHANGED <<metricVars, apPage, apIds>>
            ELSE LET results == IF resp = "ok" THEN ApCatalogPage(apPage) ELSE <<>>
                     ids == apIds \o results
                 IN  /\ Record(ListLatency, ListSize)
                     /\ apPage' = NextPage(apPage)
                     /\ IF apPage < PagesApi
                        THEN apIds' = ids /\ appc' = "list"
                        ELSE /\ apIds' = SubSeq(ids, 1, Min(2 * apMax, Len(ids)))
                             /\ appc' = "detail"
    /\ UNCHANGED <<script, mtVars, pxVars, seVars, mnVars, trVars, jnVars, bsVars, nmVars, extVars, apVariant, apMax, apK,
                   apAvail, apIdx, apRows>>

\* step3b: the result of fetch_movie_api for one entry of ids[:max_movies], as
\* the collector sees it (the pool's interleavings are SpecMT's): a row, or
\* None for a response that is not OK or an exception.
ApMtDetail ==
    /\ script = "api" /\ apVariant = "mt" /\ appc = "detail"
    /\ IF apIdx > Min(apMax, Len(apIds))
       THEN /\ appc' = "done"
            /\ UNCHANGED <<metricVars, apIdx, apRows, apAllOk>>
       ELSE \E resp \in {"ok", "notok", "exc"} :
              /\ apIdx' = apIdx + 1
              /\ apAllOk' = (apAllOk /\ resp = "ok")
              /\ IF resp = "exc" THEN UNCHANGED metricVars
                 ELSE Record(LatencyOf(apIds[apIdx]), SizeOf(apIds[apIdx]))
              /\ apRows' = IF resp = "ok"
                           THEN Append(apRows, [tmdb_id |-> apIds[apIdx],
                                                method |-> ApMethod(apVariant)])
                           ELSE apRows
              /\ UNCHANGED appc
    /\ UNCHANGED <<script, mtVars, pxVars, seVars, mnVars, trVars, jnVars, bsVars, nmVars, extVars, apVariant, apMax, apK,
                   apAvail, apPage, apPages, apIds>>

NextApi == ApUnifiedPage \/ ApMtPage \/ ApMtDetail

SpecApi == InitApi /\ [][NextApi]_vars

----------------------------------------------------------------------------
(* The static-HTML strategy, one detail page at a time: step1 scrape_bs4 /   *)
(* get_movie_details_requests and step3b scrape_bs4_mt / fetch_bs4_detail.   *)

\* the fields read from a detail page, one selector chain each
DetailFields == {"title", "release_date", "overview", "genres", "rating", "poster_url"}

\* the selector chains that match on a page: all of them, all but one, none
PagePresents ==
    {DetailFields} \cup {DetailFields \ {f} : f \in DetailFields} \cup {{}}

\* fields the variant reads from the detail page (step1 takes the title from
\* the listing card)
FieldsRead(variant) ==
    IF variant = "unified" THEN DetailFields \ {"title"} ELSE DetailFields

\* `x = tag.text.strip() if tag else "N/A"`;
\* step3b title: `title_tag.text.strip() if title_tag else f"Movie {mid}"`
Extract(variant, f, present, id) ==
    IF f \in present \/ f \notin FieldsRead(variant) THEN "value"
    ELSE IF f = "title" THEN "Movie <id>"
    ELSE "N/A"

BsMethod(variant) == IF variant = "unified" THEN "BS4" ELSE "BS4_MT"

BsRow(variant, id, present) ==
    [f \in DetailFields |-> Extract(variant, f, present, id)]
        @@ [tmdb_id |-> id, method |-> BsMethod(variant)]

\* What one detail fetch gives the strategy: <<row>>, or <<>> for None.
\*   step1 get_movie_details_requests: the body is parsed whatever the status;
\*       `except Exception` returns "N/A" five times; scrape_bs4 appends the
\*       row in every case.
\*   step3b fetch_bs4_detail: `if not r.ok: return None`;
\*       `except requests.exceptions.RequestException: return None`.
DetailResult(variant, id, resp, present) ==
    IF variant = "unified"
    THEN <<BsRow(variant, id, IF resp = "exc" THEN {} ELSE present)>>
    ELSE IF resp = "ok" THEN <<BsRow(variant, id, present)>> ELSE <<>>

\* ids the detail loop goes through: step3b cuts the list, ids[:max_movies]
BsWork == IF bsVariant = "mt" THEN Cut(bsIds, bsMax) ELSE bsIds

InitStatic ==
    /\ script = "static"
    /\ MtIdle /\ PxIdle /\ SeIdle /\ MnIdle /\ TrIdle /\ JnIdle /\ ApIdle /\ NmIdle /\ ExtIdle
    /\ MetricsInit
    /\ bsVariant \in {"unified", "mt"}
    /\ bsMax \in 1..MaxMovies
    /\ bsIds \in SeqsUpTo(Ids, MaxListing) \ {<<>>}
    /\ bsIdx = 1
    /\ bspc = "detail"
    /\ bsRows = <<>>
    /\ bsLog = <<>>

\* One detail fetch and what the strategy does with its result.
BsDetail ==
    /\ script = "static" /\ bspc = "detail"
    /\ bsIdx <= Len(BsWork)
    /\ bsVariant = "unified" => Len(bsRows) < bsMax
    /\ \E resp \in {"ok", "notok", "exc"}, present \in PagePresents :
         LET id == BsWork[bsIdx]
             res == DetailResult(bsVariant, id, resp, present)
         IN  /\ resp = "exc" => present = {}
             /\ IF resp = "exc" THEN UNCHANGED metricVars
                ELSE Record(LatencyOf(id), SizeOf(id))
             /\ bsRows' = bsRows \o res
             /\ bsLog' = Append(bsLog, [id |-> id, resp |-> resp, present |-> present,
                                        row |-> IF res = <<>> THEN 0 ELSE Len(bsRows')])
             /\ bsIdx' = bsIdx + 1
    /\ UNCHANGED <<script, mtVars, pxVars, seVars, mnVars, trVars, jnVars, apVars, nmVars, extVars,
                   bsVariant, bsMax, bsIds, bspc>>

\* the loop is over: `return movies, msum` / `return rows[:max_movies], m`
BsFinish ==
    /\ script = "static" /\ bspc = "detail"
    /\ \/ bsIdx > Len(BsWork)
       \/ bsVariant = "unified" /\ Len(bsRows) >= bsMax
    /\ bspc' = "done"
    /\ bsRows' = Cut(bsRows, bsMax)
    /\ UNCHANGED <<script, metricVars, mtVars, pxVars, seVars, mnVars, trVars, jnVars, apVars,
                   nmVars, extVars, bsVariant, bsMax, bsIds, bsIdx, bsLog>>

NextStatic == BsDetail \/ BsFinish

SpecStatic == InitStatic /\ [][NextStatic]_vars

----------------------------------------------------------------------------
(* The release date and rating fields: normalize_date / norm_date,           *)
(* normalize_rating / norm_rating, and where the strategies call them.       *)

\* A date value as the source supplies it: its text form and the day it
\* names.  "iso" is 2024-10-25, "us" is 10/25/2024, "text" is text that names
\* no date, "N/A" is that very text, "none" is an absent value (None, or no
\* matching tag).
Days == {1, 2, 3}
RawDates ==
    [fmt : {"iso", "us"}, v : Days]
        \cup {[fmt |-> "text", v |-> 0], [fmt |-> "none", v |-> 0], NA}

\* pd.to_datetime(s, errors="coerce"): the day, or NaT (0)
to_datetime_next_day(raw) == IF raw.fmt \in {"iso", "us"} THEN raw.v + 1 ELSE 0
to_datetime(raw) == IF raw.fmt \in {"iso", "us"} THEN raw.v ELSE 0

\* dt.strftime("%Y-%m-%d") if not pd.isna(dt) else "N/A"
normalize_date(raw) ==
    LET dt == to_datetime(raw)
    IN  IF dt # 0 THEN [fmt |-> "iso", v |-> dt] ELSE NA

\* release_date of a record:
\*   API rows: normalize_date(item.get("release_date"));
\*   BS4 and Selenium rows: `release_date.text.strip() if release_date else "N/A"`
ReleaseDateField(strategy, raw) ==
    IF strategy = "API" THEN normalize_date(raw)
    ELSE IF raw.fmt = "none" THEN NA ELSE raw

\* A rating value as the source supplies it: a number given in tenths, an
\* infinity, a NaN, text that is no number, or an absent value.
RatingTenths == (0 - 15)..1015
RawRatings ==
    [fmt : {"num"}, v : RatingTenths]
        \cup [fmt : {"inf", "-inf", "nan", "text", "none"}, v : {0}]

\* the values round(v, 1) may return for v given in hundredths: the nearest
\* tenth; for a v halfway between two tenths the binary value of the float
\* decides which of the two
RoundTenths(h) ==
    LET q == h \div 10
        rem == h % 10
    IN  IF rem < 5 THEN {q} ELSE IF rem > 5 THEN {q + 1} ELSE {q, q + 1}

\* normalize_rating(x), the results it may return:
\*   v = float(x)               raises for text and None -> "N/A"
\*   if v > 10: v = v / 10.0
\*   round(max(0.0, min(10.0, v)), 1)
\* min(10.0, nan) is 10.0: no comparison with a NaN is true.
normalize_rating(x) ==
    CASE x.fmt \in {"text", "none"} -> {NA}
      [] x.fmt \in {"inf", "nan"}   -> {[fmt |-> "num", v |-> 100]}
      [] x.fmt = "-inf"             -> {[fmt |-> "num", v |-> 0]}
      [] OTHER ->
           LET hundredths == IF x.v > 100 THEN x.v ELSE x.v * 10
               clamped == Max(0, Min(1000, hundredths))
           IN  {[fmt |-> "num", v |-> t] : t \in RoundTenths(clamped)}

\* step3c norm_rating: the same statements on one line, bare `except`
norm_rating(x) == normalize_rating(x)

InitNorm ==
    /\ script = "norm"
    /\ MtIdle /\ PxIdle /\ SeIdle /\ MnIdle /\ TrIdle /\ JnIdle /\ ApIdle /\ BsIdle /\ ExtIdle
    /\ MetricsInit
    /\ nmStrategy \in {"API", "BS4", "Selenium"}
    /\ nmScript \in {"unified", "mt", "proxy"}
    /\ \/ nmRawDate \in RawDates /\ nmRawRating = [fmt |-> "none", v |-> 0]
       \/ nmRawDate = [fmt |-> "none", v |-> 0] /\ nmRawRating \in RawRatings
    /\ nmpc = "raw"
    /\ nmDate = NA
    /\ nmRating = NA

\* the two fields of the row, as the strategy builds it
NormFields ==
    /\ script = "norm" /\ nmpc = "raw"
    /\ nmDate' = ReleaseDateField(nmStrategy, nmRawDate)
    /\ nmRating' \in (IF nmScript = "proxy" THEN norm_rating(nmRawRating)
                      ELSE normalize_rating(nmRawRating))
    /\ nmpc' = "done"
    /\ UNCHANGED <<script, metricVars, mtVars, pxVars, seVars, mnVars, trVars, jnVars, apVars,
                   bsVars, extVars, nmStrategy, nmScript, nmRawDate, nmRawRating>>

NextNorm == NormFields

SpecNorm == InitNorm /\ [][NextNorm]_vars

----------------------------------------------------------------------------
(* Route of a proxy run: step3c check_tor and __main__                      *)

\* make_session(proxies): `if proxies: s.proxies.update(proxies)`; the browser's
\* --proxy-server argument is added `if use_tor`
SessionRouteDirect(proxies) == "direct"
SessionRoute(proxies) == IF proxies THEN "tor" ELSE "direct"

\* "proxy": ("tor" if proxies else "none")
ProxyLabel(proxies) == IF proxies THEN "tor" ELSE "none"

InitRoute ==
    /\ script = "route"
    /\ MtIdle /\ PxIdle /\ SeIdle /\ CoreAuxIdle /\ MsIdle /\ BgIdle
    /\ MetricsInit
    /\ rtArg \in {"tor", "none"}
    /\ rtProbe = "notrun"
    /\ rtProxies = FALSE
    /\ rtpc = "start"
    /\ rtRoute = [st \in Strategies |-> "unset"]
    /\ rtFallback = <<>>
    /\ rtRows = [st \in Strategies |-> -1]
    /\ rtLabel = "unset"

\* use_tor = (args.proxy == "tor")
\* proxies = {...} if (use_tor and check_tor()) else None
\* check_tor is called only when use_tor; it catches every Exception.
RtProbe ==
    /\ script = "route" /\ rtpc = "start"
    /\ \E probe \in {"ok", "notok", "exc"} :
         /\ rtProbe' = IF rtArg = "tor" THEN probe ELSE "notrun"
         /\ rtProxies' = (rtArg = "tor" /\ check_tor(probe))
    /\ rtpc' = "api"
    /\ UNCHANGED <<script, metricVars, mtVars, pxVars, seVars, coreAuxVars, msVars, bgVars, rtArg, rtRoute,
                   rtFallback, rtRows, rtLabel>>

\* api_rows, api_m = scrape_api(args.max, proxies=proxies)
\* bs_rows, bs_m = scrape_bs4(args.max, proxies=proxies)
\* each makes its session with make_session(proxies); a request that raises
\* leaves the strategy and the script.
RtSession(st) ==
    /\ script = "route" /\ rtpc = st /\ st \in {"api", "bs4"}
    /\ rtRoute' = [rtRoute EXCEPT ![st] = SessionRoute(rtProxies)]
    /\ \E raised \in BOOLEAN, n \in 0..MaxRows :
         IF raised
         THEN /\ rtpc' = "raised"
              /\ UNCHANGED rtRows
         ELSE /\ rtpc' = IF st = "api" THEN "bs4" ELSE "sel"
              /\ rtRows' = [rtRows EXCEPT ![st] = n]
    /\ UNCHANGED <<script, metricVars, mtVars, pxVars, seVars, coreAuxVars, msVars, bgVars, rtArg, rtProbe,
                   rtProxies, rtFallback, rtLabel>>

\* se_rows, se_m = scrape_selenium(args.max, use_tor=(proxies is not None)):
\* the browser's proxy argument and the fallback session both follow use_tor;
\* `fetched` detail pages went through the fallback session.
RtSelenium ==
    /\ script = "route" /\ rtpc = "sel"
    /\ \E chrome \in {"ok", "exc"}, n \in 0..MaxRows, fetched \in 0..MaxRows :
         IF chrome = "exc"
         THEN /\ rtpc' = "raised"
              /\ UNCHANGED <<rtRoute, rtFallback, rtRows>>
         ELSE /\ rtRoute' = [rtRoute EXCEPT !["sel"] = SessionRoute(rtProxies)]
              /\ rtFallback' = [k \in 1..fetched |-> FallbackViaTor(rtProxies)]
              /\ rtRows' = [rtRows EXCEPT !["sel"] = n]
              /\ rtpc' = "save"
    /\ UNCHANGED <<script, metricVars, mtVars, pxVars, seVars, coreAuxVars, msVars, bgVars, rtArg, rtProbe,
                   rtProxies, rtLabel>>

\* save_rows x3, save_metrics_table, then the JSON summary with its "proxy" field
RtSave ==
    /\ script = "route" /\ rtpc = "save"
    /\ rtLabel' = ProxyLabel(rtProxies)
    /\ rtpc' = "done"
    /\ UNCHANGED <<script, metricVars, mtVars, pxVars, seVars, coreAuxVars, msVars, bgVars, rtArg, rtProbe,
                   rtProxies, rtRoute, rtFallback, rtRows>>

NextRoute ==
    \/ RtProbe
    \/ \E st \in {"api", "bs4"} : RtSession(st)
    \/ RtSelenium
    \/ RtSave

SpecRoute == InitRoute /\ [][NextRoute]_vars

----------------------------------------------------------------------------
(* Metrics.record and Metrics.summary called by one thread.                 *)
(* Latencies are counted in milliseconds, avg_latency_ms in hundredths of a *)
(* millisecond (2 decimals), total_latency_s in milliseconds (3 decimals).  *)

MaxSamples == 3
MaxSummaries == 2
LatencyInputs == {0 - 1, 0, 1, 2}
SizeInputs == {0 - 3, 0, 1, 2}

\* round(num / den) for num >= 0, den > 0, as Python's round: to the nearest
\* integer, a tie to the even one
RoundHalfEven(num, den) ==
    LET q == num \div den
        r == num % den
    IN  IF 2 * r < den THEN q
        ELSE IF 2 * r > den THEN q + 1
        ELSE IF q % 2 = 0 THEN q ELSE q + 1

\* avg_ms = 1000.0 * (sum(self.latencies) / len(self.latencies)) if
\* self.latencies else 0.0; round(avg_ms, 2)
AvgLatencyNoMean(ts) ==
    IF ts = <<>> THEN 0 ELSE 100 * SumSeq(ts)
AvgLatency(ts) ==
    IF ts = <<>> THEN 0 ELSE RoundHalfEven(100 * SumSeq(ts), Len(ts))

\* the dict Metrics.summary returns
summary ==
    [requests |-> count,
     bytes |-> bytes,
     avg_latency_ms |-> AvgLatency(latencies),
     total_latency_s |-> SumSeq(latencies)]

InitMetrics ==
    /\ script = "metrics"
    /\ MtIdle /\ PxIdle /\ SeIdle /\ CoreAuxIdle /\ RtIdle /\ BgIdle
    /\ MetricsInit
    /\ msLast = [latency |-> 0, size |-> 0]
    /\ msOut = NoSummary
    /\ msCalls = 0

\* metrics.record(latency, size)
MsRecord ==
    /\ script = "metrics"
    /\ nrec < MaxSamples
    /\ \E latency \in LatencyInputs, size \in SizeInputs :
         /\ Record(latency, size)
         /\ msLast' = [latency |-> latency, size |-> size]
    /\ UNCHANGED <<script, mtVars, pxVars, seVars, coreAuxVars, rtVars, bgVars, msOut, msCalls>>

\* m = metrics.summary()
MsSummary ==
    /\ script = "metrics"
    /\ msCalls < MaxSummaries
    /\ msOut' = summary
    /\ msCalls' = msCalls + 1
    /\ UNCHANGED <<script, metricVars, mtVars, pxVars, seVars, coreAuxVars, rtVars, bgVars, msLast>>

NextMetrics ==
    \/ MsRecord
    \/ MsSummary

SpecMetrics == InitMetrics /\ [][NextMetrics]_vars

----------------------------------------------------------------------------
(* collect_balanced: step4a_build_balanced_2000_api.py (plain) and          *)
(* step4a_build_balanced_2000_api_enriched.py (enriched).                   *)

MovieIds == {1, 2, 3}
MaxRequests == 5

\* the listings the discover endpoint may hold for one genre: the movies of the
\* genre in popularity order, each once
Listings == {q \in SeqsUpTo(MovieIds, Cardinality(MovieIds)) :
                \A i \in 1..Len(q), j \in 1..Len(q) : i # j => q[i] # q[j]}

\* "total_pages" of the response
TotalPages(listing) == Max(1, (Len(listing) + PageSize - 1) \div PageSize)

\* discover_by_genre(session, gid, page): the JSON of one page
discover_by_genre(gname, page) ==
    [results |-> LET q == bgCatalog[gname]
                 IN  SubSeq(q, Min(Len(q), (page - 1) * PageSize) + 1,
                            Min(Len(q), page * PageSize)),
     total_pages |-> TotalPages(bgCatalog[gname])]

\* the tests of the `for rec in results` body that `continue`:
\*   plain:    no id or id in have; no overview or no title
\*   enriched: no id or id in have; no overview; no detail (`refused`: the
\*             detail request failed); rating <= 0
SkippedAlsoSeen(mid, have, refused) ==
    mid \in bgBad \/ (bgVariant = "enriched" /\ mid \in refused)
Skipped(mid, have, refused) ==
    mid \in have \/ mid \in bgBad \/ (bgVariant = "enriched" /\ mid \in refused)

RECURSIVE ForRec(_, _, _, _, _, _)
\* the `for rec in results` loop: rows, have and added after it
ForRec(results, rs, have, added, gname, refused) ==
    IF results = <<>> \/ added >= bgTarget
    THEN [rows |-> rs, have |-> have, added |-> added]
    ELSE IF Skipped(Head(results), have, refused)
         THEN ForRec(Tail(results), rs, have, added, gname, refused)
         ELSE ForRec(Tail(results),
                     Append(rs, [tmdb_id |-> Head(results), primary_genre |-> gname]),
                     have \cup {Head(results)}, added + 1, gname, refused)

\* what follows the for loop, for a loop that goes on: the next page
\*   plain:    page += 1; if page > total_pages and added_here < target: page = 1
\*   enriched: page += 1
AfterPagePlain(page, total_pages) == IF page + 1 > total_pages THEN 1 ELSE page + 1
AfterPageEnriched(page, total_pages) == page + 1

\* the while loop of the genre is left after this pass:
\*   both:     added reached the target (the `while` condition, or the elif)
\*   enriched: if page > data.get("total_pages", 1): break
GenreOver(added, page, total_pages) ==
    \/ added >= bgTarget
    \/ bgVariant = "enriched" /\ page + 1 > total_pages

InitBalanced ==
    /\ script = "balanced"
    /\ MtIdle /\ PxIdle /\ SeIdle /\ CoreAuxIdle /\ RtIdle /\ MsIdle
    /\ MetricsInit
    /\ bgVariant \in {"plain", "enriched"}
    /\ bgChosen \in [1..2 -> Genres]
    /\ bgTarget \in 1..MaxTarget
    /\ bgCatalog \in [Genres -> Listings]
    /\ bgBad \in {{}, {2}}
    /\ bgpc = "loop"
    /\ bgG = 1
    /\ bgPage = 1
    /\ bgAdded = 0
    /\ bgRows = <<>>
    /\ bgHave = {}
    /\ bgReqs = 0

\* One pass of `while added_here < target_per_genre` for the genre
\* chosen_genres[bgG]: the discover request (it may raise), `if not results:
\* break`, the for loop, the page arithmetic; when the while loop is left, the
\* `for gname in chosen_genres` loop goes on to the next genre.
BgPass ==
    /\ script = "balanced" /\ bgpc = "loop"
    /\ bgReqs < MaxRequests
    /\ \E resp \in {"ok", "exc"}, refused \in SUBSET {1} :
         LET gname == bgChosen[bgG]
             data == discover_by_genre(gname, bgPage)
             after == ForRec(data.results, bgRows, bgHave, bgAdded, gname, refused)
             over == data.results = <<>> \/ GenreOver(after.added, bgPage, data.total_pages)
         IN  /\ (bgVariant = "plain") => refused = {}
             /\ IF resp = "exc"
                THEN /\ bgpc' = "raised"
                     /\ bgReqs' = bgReqs + 1
                     /\ UNCHANGED <<bgG, bgPage, bgAdded, bgRows, bgHave>>
                ELSE /\ bgRows' = after.rows
                     /\ bgHave' = after.have
                     /\ IF over
                        THEN /\ bgG' = IF bgG < Len(bgChosen) THEN bgG + 1 ELSE bgG
                             /\ bgpc' = IF bgG < Len(bgChosen) THEN "loop" ELSE "done"
                             /\ bgPage' = 1
                             /\ bgAdded' = IF bgG < Len(bgChosen) THEN 0 ELSE after.added
                             /\ bgReqs' = IF bgG < Len(bgChosen) THEN 0 ELSE bgReqs + 1
                        ELSE /\ bgPage' = IF bgVariant = "plain"
                                          THEN AfterPagePlain(bgPage, data.total_pages)
                                          ELSE AfterPageEnriched(bgPage, data.total_pages)
                             /\ bgAdded' = after.added
                             /\ bgReqs' = bgReqs + 1
                             /\ UNCHANGED <<bgG, bgpc>>
    /\ UNCHANGED <<script, metricVars, mtVars, pxVars, seVars, coreAuxVars, rtVars, msVars,
                   bgVariant, bgChosen, bgTarget, bgCatalog, bgBad>>

NextBalanced == BgPass

SpecBalanced == InitBalanced /\ [][NextBalanced]_vars

\* C2: a listing loop stops as soon as a listing response holds zero
\* candidates: no further listing page is requested after such a response.
C2_StopsAtEmptyPage ==
    script = "proxy" =>
        \A i \in 1..Len(yields) : (yields[i] = 0) => (i = Len(yields))

TorTags == {"API_TOR", "BS4_TOR", "Selenium_TOR"}
DirectTags == {"API", "BS4", "Selenium"}

\* C3: every row of the proxy runner carries a Tor tag iff the run uses the
\* Tor route, and a direct tag otherwise.
C3_TagIsRouteUsed ==
    script = "proxy" =>
        /\ \A st \in Strategies : \A k \in 1..Len(pxRows[st]) :
              /\ pxRows[st][k].method \in TorTags <=> pxProxies
              /\ pxRows[st][k].method \in DirectTags <=> ~pxProxies
        /\ \A k \in 1..Len(seRows) :
              /\ seRows[k].method \in TorTags <=> pxProxies
              /\ seRows[k].method \in DirectTags <=> ~pxProxies

\* C5: an exception on one listing or detail request never ends the run.
C5_ItemFailureNeverAborts ==
    script = "proxy" => pxpc \notin {"raised_listing", "raised_detail"}

\* C4: a driver.get that times out leaves its navigation in Partial: not
\* retried, not Failed, and no exception leaves the navigation.
C4_TimeoutIsPartial ==
    (script = "nav" /\ navLast = "timeout") => navState = "Partial"

\* C6: a strategy that produces zero rows or fails does not stop the run: the
\* other strategies still run and the results are saved.
C6_SiblingsStillRun ==
    script = "main" => mnpc # "raised"

\* C8: every attempt that reaches the wire records one metrics sample: once
\* the fetches are over, the request count equals the number of attempts made,
\* retried and failed attempts included.
C8_OneSamplePerAttempt ==
    (script = "transport" /\ trpc = "done") => count = trWire

OutIds == {jnOut[k].tmdb_id : k \in 1..Len(jnOut)}

\* C9: the ids of the join are exactly the ids present in all three inputs;
\* for inputs with ids 1,2,3 / 2,3,4 / 3,4,5 the join holds exactly id 3.
C9_JoinIsIntersection ==
    (script = "join" /\ jnpc = "done") =>
        /\ OutIds = SeqToSet(jnA) \cap SeqToSet(jnB) \cap SeqToSet(jnC)
        /\ (jnA = ScenarioA /\ jnB = ScenarioB /\ jnC = ScenarioC) => OutIds = {3}

C9_Witness ==
    /\ script = "join" /\ jnpc = "done"
    /\ jnA = ScenarioA /\ jnB = ScenarioB /\ jnC = ScenarioC
    /\ OutIds = {3} /\ jnCount = 1

\* C10: the join never has more rows than the shortest of its three inputs.
C10_JoinAtMostMin ==
    (script = "join" /\ jnpc = "done") =>
        jnCount <= Min(Len(jnA), Min(Len(jnB), Len(jnC)))

\* C11: a record whose id is missing never appears in the join and never
\* matches another record there.
C11_NullIdNotJoined ==
    (script = "join" /\ jnpc = "done") => Null \notin OutIds

\* C12: a detail navigation of the proxy runner that ends Failed is followed by
\* one fetch of the same URL through the fallback session, whose route is Tor
\* exactly when the browser's is; no other navigation makes a fallback fetch;
\* a body that comes back OK gives the item's record, built like any other.
C12_FallbackSameRoute ==
    [][(script = "nav" /\ seVariant = "proxy" /\ sepc = "detail") =>
          /\ (navCalls' # navCalls /\ navState' = "Failed")
                <=> (Len(seFallback') = Len(seFallback) + 1)
          /\ Len(seFallback') # Len(seFallback) =>
                /\ seFallback' = Append(seFallback, seTor)
                /\ seIdx' = seIdx + 1
                /\ seRows' \in {seRows,
                                Append(seRows, [tmdb_id |-> seCand[seIdx],
                                                method |-> SelMethod(seTor)])}
          /\ Len(seFallback') = Len(seFallback) \/ navState' = "Failed"]_vars

C12_Witness ==
    /\ script = "nav" /\ seVariant = "proxy" /\ ~seTor
    /\ navState = "Failed" /\ seIdx = 2
    /\ seFallback = <<FALSE>>
    /\ Len(seRows) = 1

\* ceil(t / k)
CeilDiv(t, k) == (t + k - 1) \div k

\* C13: with pages of k items, at least T items available and every response
\* OK, the API strategy requests the first ceil(T/k) listing pages and no page
\* after the one on which the target is reached, and ends with exactly T
\* records, all tagged "API".
C13_ApiStopsAtTarget ==
    (script = "api" /\ apAllOk /\ apAvail >= apMax) =>
        /\ apPages = Range(1, Len(apPages))
        /\ Len(apPages) <= CeilDiv(apMax, apK)
        /\ \A i \in 1..Len(apRows) : apRows[i].method = "API"
        /\ appc = "done" => /\ Len(apRows) = apMax
                            /\ Len(apPages) = CeilDiv(apMax, apK)

\* C14: a detail page that was fetched always gives a record, in which every
\* field whose selector matched nothing is "N/A" and every other field is
\* extracted; if no page has the rating selector, every record's rating is
\* "N/A".
C14_MissingSelectorIsSentinel ==
    script = "static" =>
        \A i \in 1..Len(bsLog) :
            bsLog[i].resp = "ok" =>
                /\ bsLog[i].row # 0
                /\ \A f \in FieldsRead(bsVariant) :
                      bsRows[bsLog[i].row][f] =
                          (IF f \in bsLog[i].present THEN "value" ELSE "N/A")

\* C15: a response with status 429/500/502/503/504 is retried while the Retry
\* budget lasts, so one fetch makes at most total+1 attempts and fails only
\* when the budget is used up; a response with another error status ends the
\* fetch at that attempt, without a retry.
C15_RetryOnlyTransient ==
    [][(script = "transport" /\ trpc = "wire" /\ trWire' # trWire) =>
          /\ trTry' <= RetryTotal(trCaller) + 1
          /\ trLast' = "forcelist" =>
                IF trTry' <= RetryTotal(trCaller)
                THEN trpc' = "wire" /\ trLeft' = trLeft /\ trRaised' = trRaised
                ELSE trLeft' = trLeft - 1 /\ trRaised' = trRaised + 1
          /\ trLast' = "notok" =>
                trLeft' = trLeft - 1 /\ trRaised' = trRaised /\ count' = count + 1]_vars

C15_Witness ==
    /\ script = "transport" /\ trCaller = "details"
    /\ trLast = "forcelist" /\ trTry = RetryTotalUnified + 1
    /\ trRaised = 1 /\ count = 1

\* C16: the release date of every record is an ISO date or "N/A", and it is
\* the same for the same raw date whichever strategy wrote the record.
C16_DateIsIsoOrSentinel ==
    (script = "norm" /\ nmpc = "done") =>
        /\ nmDate.fmt \in {"iso", "N/A"}
        /\ nmDate = normalize_date(nmRawDate)

\* the nearest tenths of a value given in hundredths
NearestTenths(h) == {t \in (h \div 10)..(h \div 10 + 1) : 10 * t - h \in (0 - 5)..5}

\* C17: a rating above 10 gives r/10 clamped to [0,10] and rounded to one
\* decimal, a rating in [0,10] gives r rounded, a negative one gives 0, a
\* value that is no number gives "N/A"; the result is in [0,10] or "N/A".
C17_RatingNormalized ==
    (script = "norm" /\ nmpc = "done") =>
        LET x == nmRawRating
        IN  /\ nmRating = NA \/ (nmRating.fmt = "num" /\ nmRating.v \in 0..100)
            /\ (x.fmt = "num" /\ x.v > 100) =>
                  nmRating.fmt = "num" /\ nmRating.v \in NearestTenths(Min(1000, x.v))
            /\ (x.fmt = "num" /\ x.v \in 0..100) => nmRating = [fmt |-> "num", v |-> x.v]
            /\ (x.fmt = "num" /\ x.v < 0) => nmRating = [fmt |-> "num", v |-> 0]
            /\ x.fmt \in {"nan", "text", "none"} => nmRating = NA

\* C18: an item whose detail fetch failed (a response that is not OK, or an
\* exception) gets no record, and the strategy goes on with the next item.
C18_FailedFetchNoRecord ==
    script = "static" =>
        \A i \in 1..Len(bsLog) : bsLog[i].resp # "ok" => bsLog[i].row = 0

\* C19: in a run whose record calls come one after the other, the request
\* count of a Metrics object always equals the number of latency samples it
\* holds and the number of record calls made on it, and the requests value of
\* a strategy's summary is the number of record calls of that strategy's run.
C19_CountIsSamples ==
    /\ [](script = "proxy" =>
            /\ count = Len(latencies)
            /\ count = nrec)
    /\ [][script = "proxy" =>
            \A st \in Strategies : pxSum'[st] # pxSum[st] => pxSum'[st] = nrec']_vars

C19_Witness ==
    /\ script = "proxy" /\ pxpc = "done"
    /\ pxSum["api"] = 3 /\ pxSum["bs4"] = 2 /\ pxSum["sel"] = 2
    /\ count = 2 /\ Len(latencies) = 2

\* retries of the variant's safe_get
NavRetries(variant) == IF variant = "proxy" THEN SEL_RETRIES ELSE MtRetries

\* C20: safe_get repeats a navigation that raised a browser error until
\* retries+1 attempts have failed and only then reports Failed; an attempt
\* that loads or times out is the last one.
C20_FailedAfterAllRetries ==
    [][(script = "nav" /\ seVariant \in {"proxy", "mt"} /\ navCalls' # navCalls) =>
          /\ navAttempt <= NavRetries(seVariant)
          /\ navState' = "Failed" <=>
                (navLast' = "error" /\ navAttempt = NavRetries(seVariant))
          /\ (navLast' = "error" /\ navAttempt < NavRetries(seVariant)) =>
                (navState' = "Loading" /\ navAttempt' = navAttempt + 1)
          /\ navLast' \in {"loaded", "timeout"} =>
                (navState' \in {"Loaded", "Partial"} /\ navAttempt' = 0)]_vars

\* C21: in the proxy runner a navigation that times out ends there, as
\* Partial: no further attempt is made, and for a detail page the caller
\* builds the item's record from the page source as after a full load, without
\* a fallback fetch.
C21_PartialIsSuccess ==
    [][(script = "nav" /\ seVariant = "proxy" /\ navCalls' # navCalls
            /\ navLast' = "timeout") =>
          /\ navState' = "Partial"
          /\ navAttempt' = 0
          /\ seFallback' = seFallback
          /\ sepc = "detail" =>
                /\ seRows' = Append(seRows, [tmdb_id |-> seCand[seIdx],
                                             method |-> SelMethod(seTor)])
                /\ seIdx' = seIdx + 1
                /\ count' = count + 1]_vars

C21_Witness ==
    /\ script = "nav" /\ seVariant = "proxy"
    /\ sepc = "detail" /\ seIdx = 2
    /\ navLast = "timeout" /\ navState = "Partial"
    /\ Len(seRows) = 1 /\ seFallback = <<>>

\* C22: in the browser strategy every navigation attempt and every fallback
\* fetch records one sample: the request count is the number of attempts plus
\* the number of fallback fetches, whenever no navigation is under way.
C22_SamplePerNavAttempt ==
    (script = "nav" /\ navState # "Loading") => count = navCalls + Len(seFallback)

\* C23: in the proxy runner, when a detail navigation ends Failed and the
\* fallback fetch fails too (exception or status not OK), exactly that item is
\* skipped: no record is added, the records gathered so far stay as they are,
\* the loop moves to the next id and the strategy is not aborted.
C23_FallbackFailureSkipsItem ==
    [][(script = "nav" /\ seVariant = "proxy" /\ sepc = "detail"
            /\ Len(seFallback') = Len(seFallback) + 1
            /\ fbLast' \in {"notok", "exc"}) =>
          /\ navState' = "Failed"
          /\ seRows' = seRows
          /\ seIdx' = seIdx + 1
          /\ seCand' = seCand
          /\ sepc' = "detail"]_vars

\* the first id was skipped after a failed fallback, the second id gave a record
C23_Witness ==
    /\ script = "nav" /\ seVariant = "proxy"
    /\ Len(seFallback) = 1 /\ fbLast \in {"notok", "exc"}
    /\ Len(seCand) = 2 /\ seIdx = 3
    /\ Len(seRows) = 1 /\ seRows[1].tmdb_id = seCand[2]

\* C24: in a thread-pool run the result list is exactly the non-None results of
\* the submitted items, in the order they were collected: an item whose fetch
\* returned None gives no record and is not run again, so there are at most as
\* many records as submitted items.
C24_RowsAreNonNoneResults ==
    (script = "mt" /\ mtpc \in {"collect", "done"}) =>
        LET IsRow(i) == future[i] = "row"
            kept == SelectSeq(collected, IsRow)
        IN  /\ rows = [k \in 1..Len(kept) |-> MtRow(Submitted[kept[k]])]
            /\ Len(rows) <= Len(Submitted)
            /\ \A i \in 1..Len(Submitted) :
                  future[i] = "none" => execCount[i] = 1 /\ \A k \in 1..Len(mtQueue) : mtQueue[k] # i

\* a finished run of two items: one fetch returned None, the other a record
C24_Witness ==
    /\ script = "mt" /\ mtpc = "done"
    /\ Len(Submitted) = 2
    /\ \E i \in 1..2 : future[i] = "none" /\ future[3 - i] = "row"
    /\ Len(rows) = 1

\* C25: a listing page that yields zero candidates ends the paging normally:
\* the browser strategy goes on to return its records, no exception leaves it.
C25_ExhaustionNeverRaises ==
    (script = "nav" /\ yields # <<>> /\ yields[Len(yields)] = 0) => sepc # "raised"

\* the route the run chose
RouteChosen == IF rtProxies THEN "tor" ELSE "direct"

\* every session made so far, the browser, its fallback fetches and the
\* summary's "proxy" field agree with the route chosen from the probe
RouteIsOne ==
    /\ rtProxies = (rtArg = "tor" /\ rtProbe = "ok")
    /\ rtProbe \in {"notok", "exc"} => RouteChosen = "direct"
    /\ rtpc \notin {"start", "api", "raised"} => rtRoute["api"] = RouteChosen
    /\ rtpc \in {"sel", "save", "done"} => rtRoute["bs4"] = RouteChosen
    /\ rtpc \in {"save", "done"} => rtRoute["sel"] = RouteChosen
    /\ \A st \in Strategies : rtRoute[st] \in {"unset", RouteChosen}
    /\ \A k \in 1..Len(rtFallback) : rtFallback[k] = rtProxies
    /\ rtLabel = IF rtpc # "done" THEN "unset"
                 ELSE IF RouteChosen = "tor" THEN "tor" ELSE "none"

\* C26: the route of a proxy run is decided once, before the first strategy:
\* the probe never ends the run, the Tor route is chosen only when Tor was asked
\* for and the probe succeeded (a failed or erroring probe gives the direct
\* route), and from then on the route does not change: the sessions of the API
\* and static-HTML strategies, the browser and its fallback fetches all use it,
\* and the "proxy" field of the summary names it.
C26_RouteDecidedOnce ==
    [][script = "route" =>
          /\ rtpc # "start" => rtProxies' = rtProxies /\ rtProbe' = rtProbe
          /\ rtpc = "start" => rtpc' = "api"
          /\ RouteIsOne']_vars

\* Tor was asked for, the probe raised, and the run went through its three
\* strategies and a fallback fetch on the direct route
C26_Witness ==
    /\ script = "route" /\ rtpc = "done"
    /\ rtArg = "tor" /\ rtProbe = "exc"
    /\ \A st \in Strategies : rtRoute[st] = "direct"
    /\ rtFallback # <<>>
    /\ rtLabel = "none"

\* C27: every row of the join's output carries the values of an API record
\* with the row's id, never those of a static-HTML or browser record.
C27_OutputIsApiRecord ==
    (script = "join" /\ jnpc = "done") =>
        \A n \in 1..Len(jnOut) :
            \E k \in 1..Len(jnA) :
                /\ jnA[k] = jnOut[n].tmdb_id
                /\ jnOut[n].title = MkRecs("api", jnA)[k].title

\* an output row for an id that is the second API record and the first
\* static-HTML record
C27_Witness ==
    /\ script = "join" /\ jnpc = "done"
    /\ Len(jnA) = 2 /\ jnA[1] # jnA[2]
    /\ Len(jnOut) = 1
    /\ jnOut[1].tmdb_id = jnA[2] /\ jnOut[1].tmdb_id = jnB[1]
    /\ jnOut[1].title = <<"api", 2>>

\* C28: Metrics.record clamps negative inputs: a negative byte count adds 0 to
\* the byte total, any other adds itself; a negative latency is stored as 0;
\* so the byte total never decreases and is never negative, and no stored
\* latency is negative.
C28_RecordClamps ==
    [][(script = "metrics" /\ nrec' = nrec + 1) =>
          /\ msLast'.size < 0 => bytes' = bytes
          /\ msLast'.size >= 0 => bytes' = bytes + msLast'.size
          /\ Len(latencies') = Len(latencies) + 1
          /\ msLast'.latency < 0 => latencies'[Len(latencies')] = 0
          /\ msLast'.latency >= 0 => latencies'[Len(latencies')] = msLast'.latency
          /\ bytes' >= bytes /\ bytes' >= 0
          /\ \A k \in 1..Len(latencies') : latencies'[k] >= 0]_vars

\* a record call with a negative size and a negative latency after a call that
\* added bytes
C28_Witness ==
    /\ script = "metrics"
    /\ count = 2 /\ bytes = 2
    /\ msLast.size < 0 /\ msLast.latency < 0
    /\ latencies = <<1, 0>>

\* C29: Metrics.summary reports the request count, the byte total and, to two
\* decimals, 1000 times the mean of the recorded latencies; with no sample it
\* reports 0 requests, 0 bytes and average 0; it leaves the accumulator as it
\* was.
C29_SummaryIsMean ==
    [][(script = "metrics" /\ msCalls' = msCalls + 1) =>
          /\ count' = count /\ bytes' = bytes /\ latencies' = latencies
          /\ msOut'.requests = count /\ msOut'.bytes = bytes
          /\ latencies = <<>> =>
                msOut'.requests = 0 /\ msOut'.bytes = 0 /\ msOut'.avg_latency_ms = 0
          /\ latencies # <<>> =>
                LET d == msOut'.avg_latency_ms * Len(latencies) - 100 * SumSeq(latencies)
                IN  2 * d <= Len(latencies) /\ 2 * (0 - d) <= Len(latencies)]_vars

\* the summary of three samples of 1, 1 and 2 ms: 1.33 ms
C29_Witness ==
    /\ script = "metrics"
    /\ msCalls >= 1
    /\ latencies = <<1, 1, 2>>
    /\ msOut.requests = 3
    /\ msOut.avg_latency_ms = 133

\* C30: normalize_date is total and idempotent: whatever the raw value (an ISO
\* date, a date in another form, text that names no date, "N/A", or none), the
\* API row's release date is an ISO date or "N/A", normalising it again gives
\* the same value, and "N/A" and the absent value give "N/A".
C30_NormalizeDateIdempotent ==
    (script = "norm" /\ nmpc = "done" /\ nmStrategy = "API") =>
        /\ nmDate = normalize_date(nmRawDate)
        /\ nmDate.fmt \in {"iso", "N/A"}
        /\ normalize_date(nmDate) = nmDate
        /\ nmRawDate.fmt \in {"N/A", "none", "text"} => nmDate = NA
        /\ nmRawDate.fmt \in {"iso", "us"} => nmDate = [fmt |-> "iso", v |-> nmRawDate.v]

\* a date given as 10/25/2024 was written as an ISO date
C30_Witness ==
    /\ script = "norm" /\ nmpc = "done" /\ nmStrategy = "API"
    /\ nmRawDate.fmt = "us"
    /\ nmDate = [fmt |-> "iso", v |-> nmRawDate.v]

C32_OnlyCollectorAppends ==
    [][script = "mt" =>
          /\ (wpc' # wpc \/ mtQueue' # mtQueue \/ future' # future) =>
                rows' = rows /\ collected' = collected
          /\ rows' # rows =>
                /\ Len(collected') = Len(collected) + 1
                /\ future[collected'[Len(collected')]] = "row"
                /\ rows' = Append(rows, MtRow(Submitted[collected'[Len(collected')]]))
                /\ wpc' = wpc /\ future' = future
                /\ count' = count /\ bytes' = bytes /\ latencies' = latencies
          /\ \A k \in 1..Len(rows) : k <= Len(rows') /\ rows'[k] = rows[k]]_vars

\* the collecting thread has appended one record while a worker is still
\* inside Metrics.record
C32_Witness ==
    /\ script = "mt" /\ mtpc = "collect"
    /\ Len(rows) = 1
    /\ \E w \in Workers : wpc[w] \in {"ld_count", "st_count", "ld_bytes", "st_bytes", "append"}

TimesChosen(g) == Cardinality({n \in 1..Len(bgChosen) : bgChosen[n] = g})

C35_QuitExactlyOnce ==
    /\ [](script = "nav" =>
            /\ seQuit \in {0, 1}
            /\ (seQuit = 1) <=> (sepc \in {"done", "raised"}))
    /\ [][(script = "nav" /\ seQuit >= 1) =>
            (navCalls' = navCalls /\ seQuit' = seQuit /\ count' = count)]_vars

\* An exception left the loop after a record had been collected, and the
\* browser was released.
C35_Witness ==
    /\ script = "nav" /\ sepc = "raised"
    /\ seQuit = 1
    /\ Len(seRows) >= 1

NoRepeat(q) == \A j, k \in 1..Len(q) : j # k => q[j] # q[k]

\* C36: the browser strategies of step3b and step3c never return two records
\* with the same id and never send the browser to the detail page of an id a
\* second time, whatever the listing pages repeat.
C36_NoDuplicateIds ==
    (script = "nav" /\ seVariant \in {"mt", "proxy"}) =>
        /\ NoRepeat([k \in 1..Len(seRows) |-> seRows[k].tmdb_id])
        /\ NoRepeat(seNav)

\* Two listing pages that share a movie were read, and the run returned
\* records of both pages.
C36_Witness ==
    /\ script = "nav" /\ seVariant \in {"mt", "proxy"}
    /\ overlap /\ sepc = "done"
    /\ Len(yields) >= 2
    /\ \E id \in SeqToSet(seNav) : InSeq(id, CatalogPage(1)) /\ InSeq(id, CatalogPage(2))
    /\ Len(seRows) >= 3

\* the number of records of item id in the result
ReturnedOf(id) == Cardinality({k \in 1..Len(rows) : rows[k].tmdb_id = id})

\* the number of submitted items id whose fetch returned a record
FetchedOf(id) ==
    Cardinality({i \in 1..Len(Submitted) : Submitted[i] = id /\ future[i] = "row"})

\* C37: the records a thread-pool run returns are, as a multiset, fixed by the
\* submitted ids and the outcome of each fetch: whatever the order in which
\* the workers finish and the futures are collected, the result holds one
\* record for every submitted item whose fetch returned one, and nothing else.
C37_MultisetIndependentOfOrder ==
    (script = "mt" /\ mtpc = "done") =>
        /\ \A id \in Ids : ReturnedOf(id) = FetchedOf(id)
        /\ \A k \in 1..Len(rows) : rows[k].tmdb_id \in Ids

\* The second submitted item was collected before the first, and both gave a
\* record: the result lists them in completion order.
C37_Witness ==
    /\ script = "mt" /\ mtpc = "done"
    /\ Len(collected) = 2 /\ collected[1] = 2
    /\ Len(rows) = 2
    /\ rows[1].tmdb_id = Submitted[2] /\ rows[2].tmdb_id = Submitted[1]
    /\ Submitted[1] # Submitted[2]

\* the state of the collection loop of one genre
GenreLoopState == <<bgpc, bgG, bgPage, bgAdded, bgHave>>

\* C38: the collection loop of a genre comes to an end: a page request that
\* leaves the loop running has changed the loop's state (the page, the number
\* of rows added or the ids seen), so no request puts the loop back where it
\* was, to ask for the same page with the same ids seen again and again.
C38_GenreLoopTerminates ==
    [][(script = "balanced" /\ bgpc = "loop") =>
            GenreLoopState' # GenreLoopState]_vars

====
